---- MODULE Spec2Model ----
(***************************************************************************)
(* Model of the nimo-crypto-tracker-api lambdas.                           *)
(*                                                                         *)
(* getCryptoPrice: validate -> price cache read -> upstream fetch with     *)
(* bounded exponential backoff -> cache write-back -> conditional history  *)
(* append (with throttling retry) -> e-mail notification -> response.      *)
(*                                                                         *)
(* Every invocation is an independent process; the only shared state is    *)
(* the DynamoDB table (cache entries and history records) and the clock.   *)
(* One action is one I/O completion of an invocation together with the     *)
(* synchronous code that runs until the next await.                        *)
(***************************************************************************)
EXTENDS Integers, Sequences, FiniteSets, TLC

(***************************************************************************)
(* Bounds of the model.                                                    *)
(***************************************************************************)
\* concurrent invocations of the getCryptoPrice handler
NumReqs == 2
\* size of the pool uuidv4() draws from (small, so that ids can collide)
MaxUuids == 2
\* number of clock ticks the model lets pass
MaxTicks == 2
\* number of failures the environment injects in one run (upstream failures,
\* DynamoDB and SES errors)
MaxFaults == 3

Reqs == 1..NumReqs

(***************************************************************************)
(* Strings (JavaScript String methods used by the code).                   *)
(***************************************************************************)
\* s.charAt(i - 1): "" outside the string
charAt(s, i) == IF i >= 1 /\ i <= Len(s) THEN SubSeq(s, i, i) ELSE ""

\* s.slice(a - 1, b): the characters a..b that s has
slice(s, a, b) ==
    LET e == IF b > Len(s) THEN Len(s) ELSE b
    IN  IF a < 1 \/ a > e THEN "" ELSE SubSeq(s, a, e)

includes(s, p) ==
    \E i \in 1..(Len(s) - Len(p) + 1) : SubSeq(s, i, i + Len(p) - 1) = p

UpperChars == "ABCDEFGHIJKLMNOPQRSTUVWXYZ"
LowerChars == "abcdefghijklmnopqrstuvwxyz"
DigitChars == "0123456789"

lowerChar(c) ==
    IF includes(UpperChars, c)
    THEN charAt(LowerChars, CHOOSE i \in 1..Len(UpperChars) : charAt(UpperChars, i) = c)
    ELSE c

RECURSIVE toLowerCase(_)
toLowerCase(s) ==
    IF Len(s) = 0 THEN ""
    ELSE lowerChar(charAt(s, 1)) \o toLowerCase(SubSeq(s, 2, Len(s)))

isSpace(c) == c = " "

RECURSIVE trimStart(_)
trimStart(s) ==
    IF Len(s) > 0 /\ isSpace(charAt(s, 1)) THEN trimStart(SubSeq(s, 2, Len(s))) ELSE s

RECURSIVE trimEnd(_)
trimEnd(s) ==
    IF Len(s) > 0 /\ isSpace(charAt(s, Len(s))) THEN trimEnd(SubSeq(s, 1, Len(s) - 1)) ELSE s

trim(s) == trimEnd(trimStart(s))

allCharsIn(s, class) == \A i \in 1..Len(s) : includes(class, charAt(s, i))

(***************************************************************************)
(* getCryptoPrice/config.js                                                *)
(***************************************************************************)
API_CONFIG == [TIMEOUT |-> 10000, MAX_RETRIES |-> 3, BACKOFF_BASE |-> 1000]

SUPPORTED_CRYPTOS ==
    {"bitcoin", "ethereum", "solana", "cardano", "dogecoin",
     "ripple", "polkadot", "litecoin", "chainlink", "stellar"}

CRYPTO_MAX_LENGTH == 50
EMAIL_MAX_LENGTH == 254

\* /^[a-z0-9-]+$/
CRYPTO_PATTERN_test(s) ==
    Len(s) >= 1 /\ allCharsIn(s, LowerChars \o DigitChars \o "-")

AlnumChars == LowerChars \o UpperChars \o DigitChars
\* (the backquote of the source's class is no character of a TLA+ string)
EmailLocalChars == AlnumChars \o ".!#$%&'*+/=?^_{|}~-"

\* one domain label: [a-zA-Z0-9](?:[a-zA-Z0-9-]{0,61}[a-zA-Z0-9])?
isDomainLabel(s) ==
    /\ Len(s) >= 1 /\ Len(s) <= 63
    /\ includes(AlnumChars, charAt(s, 1))
    /\ includes(AlnumChars, charAt(s, Len(s)))
    /\ allCharsIn(s, AlnumChars \o "-")

\* label(\.label)*
RECURSIVE isDomain(_)
isDomain(s) ==
    IF \E i \in 1..Len(s) : charAt(s, i) = "."
    THEN LET d == CHOOSE i \in 1..Len(s) :
                      charAt(s, i) = "." /\ \A j \in 1..(i - 1) : charAt(s, j) # "."
         IN  isDomainLabel(SubSeq(s, 1, d - 1)) /\ isDomain(SubSeq(s, d + 1, Len(s)))
    ELSE isDomainLabel(s)

\* EMAIL_PATTERN: ^[local chars]+@label(?:\.label)*$
EMAIL_PATTERN_test(s) ==
    \E a \in 1..Len(s) :
        /\ charAt(s, a) = "@"
        /\ a >= 2
        /\ allCharsIn(SubSeq(s, 1, a - 1), EmailLocalChars)
        /\ isDomain(SubSeq(s, a + 1, Len(s)))

STATUS_CODES ==
    [SUCCESS |-> 200, PARTIAL_SUCCESS |-> 207, BAD_REQUEST |-> 400, NOT_FOUND |-> 404,
     RATE_LIMIT |-> 429, SERVER_ERROR |-> 500, SERVICE_UNAVAILABLE |-> 503]

ERROR_MESSAGES ==
    [INVALID_JSON |-> "Invalid JSON in request body",
     MISSING_FIELDS |-> "Missing required fields: cryptocurrency and email",
     CRYPTO_REQUIRED |-> "Cryptocurrency is required and must be a string",
     INVALID_CRYPTO_FORMAT |-> "Invalid cryptocurrency format",
     UNSUPPORTED_CRYPTO |-> "Unsupported cryptocurrency. Supported: bitcoin, ethereum, solana, cardano, dogecoin, ripple, polkadot, litecoin, chainlink, stellar",
     EMAIL_REQUIRED |-> "Email is required and must be a string",
     INVALID_EMAIL_FORMAT |-> "Invalid email format",
     RATE_LIMIT_EXCEEDED |-> "Rate limit exceeded. Please try again later.",
     API_UNAVAILABLE |-> "CoinGecko API temporarily unavailable. Please try again.",
     CRYPTO_NOT_FOUND |-> "Cryptocurrency not found.",
     EMPTY_API_RESPONSE |-> "API returned empty response",
     INVALID_PRICE_DATA |-> "Invalid price data from API",
     NETWORK_UNREACHABLE |-> "Unable to reach CoinGecko API. Please check network.",
     CONNECTION_TIMEOUT |-> "Connection to CoinGecko API timed out.",
     TABLE_NOT_FOUND |-> "Database table not found. Please contact support.",
     EMAIL_REJECTED |-> "Email rejected. Please verify the recipient address.",
     EMAIL_NOT_VERIFIED |-> "Email address not verified in SES."]

\* const CACHE_TTL = 60000 (ms)
CACHE_TTL == 60000
\* storage expiry of a cache entry, in seconds after the write
CACHE_EXPIRY_S == 120
\* retention of a history record: ttlDays
TTL_DAYS == 90

\* a variant of validateInput that lets every asset id through
validateInput_anyAsset(cryptocurrency, email) ==
    LET emailTrimmed == trim(toLowerCase(email))
    IN  IF ~EMAIL_PATTERN_test(emailTrimmed) \/ Len(emailTrimmed) > EMAIL_MAX_LENGTH
        THEN [ok |-> FALSE, error |-> ERROR_MESSAGES.INVALID_EMAIL_FORMAT,
              cryptocurrency |-> "", email |-> ""]
        ELSE [ok |-> TRUE, error |-> "",
              cryptocurrency |-> trim(toLowerCase(cryptocurrency)), email |-> emailTrimmed]

(***************************************************************************)
(* validateInput: the normalised pair, or the message of the Error thrown. *)
(* A body field is a string; "" stands for a missing (undefined) field.    *)
(***************************************************************************)
validateInput(cryptocurrency, email) ==
    LET crypto == trim(toLowerCase(cryptocurrency))
        emailTrimmed == trim(toLowerCase(email))
    IN  IF cryptocurrency = ""
        THEN [ok |-> FALSE, error |-> ERROR_MESSAGES.CRYPTO_REQUIRED,
              cryptocurrency |-> "", email |-> ""]
        ELSE IF crypto = "" \/ Len(crypto) > CRYPTO_MAX_LENGTH \/ ~CRYPTO_PATTERN_test(crypto)
        THEN [ok |-> FALSE, error |-> ERROR_MESSAGES.INVALID_CRYPTO_FORMAT,
              cryptocurrency |-> "", email |-> ""]
        ELSE IF crypto \notin SUPPORTED_CRYPTOS
        THEN [ok |-> FALSE, error |-> ERROR_MESSAGES.UNSUPPORTED_CRYPTO,
              cryptocurrency |-> "", email |-> ""]
        ELSE IF email = ""
        THEN [ok |-> FALSE, error |-> ERROR_MESSAGES.EMAIL_REQUIRED,
              cryptocurrency |-> "", email |-> ""]
        ELSE IF ~EMAIL_PATTERN_test(emailTrimmed) \/ Len(emailTrimmed) > EMAIL_MAX_LENGTH
        THEN [ok |-> FALSE, error |-> ERROR_MESSAGES.INVALID_EMAIL_FORMAT,
              cryptocurrency |-> "", email |-> ""]
        ELSE [ok |-> TRUE, error |-> "", cryptocurrency |-> crypto, email |-> emailTrimmed]

(***************************************************************************)
(* Time.  Date.now() is the model clock `now`, in ms.  The clock moves in  *)
(* ticks of the freshness window: a cache entry is read at age 0 (fresh),  *)
(* at age CACHE_TTL (the boundary: stale) and at its storage expiry.       *)
(***************************************************************************)
TickMs == CACHE_TTL

\* new Date().toISOString(): seconds and milliseconds of the instant
toISOString(ms) == <<ms \div 1000, ms % 1000>>
\* new Date(iso).getTime()
getTime(iso) == iso[1] * 1000 + iso[2]

(***************************************************************************)
(* Inputs.                                                                 *)
(***************************************************************************)
\* uuidv4(): drawn from a small pool
Uuids == {"uuid-" \o ToString(i) : i \in 1..MaxUuids}

\* an asset id of 51 characters of the pattern's class
LongAssetId == "a-very-long-asset-id-0123456789-0123456789-01234567"

\* API Gateway events: method, requestContext.requestId ("" when absent) and
\* the body (json = FALSE: a body JSON.parse rejects; "" = field absent)
Events ==
    {[httpMethod |-> "POST", requestId |-> "rq-1",
      body |-> [json |-> TRUE, cryptocurrency |-> "bitcoin", email |-> "a@b.co"]],
     [httpMethod |-> "POST", requestId |-> "rq-2",
      body |-> [json |-> TRUE, cryptocurrency |-> " Bitcoin", email |-> "C@d.io "]],
     [httpMethod |-> "POST", requestId |-> "",
      body |-> [json |-> TRUE, cryptocurrency |-> "btc!", email |-> "a@b.co"]],
     [httpMethod |-> "POST", requestId |-> "rq-4",
      body |-> [json |-> TRUE, cryptocurrency |-> "bitcoin", email |-> ""]],
     [httpMethod |-> "POST", requestId |-> "rq-5",
      body |-> [json |-> FALSE, cryptocurrency |-> "", email |-> ""]],
     [httpMethod |-> "OPTIONS", requestId |-> "rq-6",
      body |-> [json |-> TRUE, cryptocurrency |-> "", email |-> ""]],
     [httpMethod |-> "POST", requestId |-> "rq-7",
      body |-> [json |-> TRUE, cryptocurrency |-> LongAssetId, email |-> "a@b.co"]],
     [httpMethod |-> "POST", requestId |-> "rq-8",
      body |-> [json |-> TRUE, cryptocurrency |-> "Monero", email |-> "a@b.co"]],
     [httpMethod |-> "POST", requestId |-> "rq-9",
      body |-> [json |-> TRUE, cryptocurrency |-> "bitcoin", email |-> "nobody"]],
     [httpMethod |-> "POST", requestId |-> "rq-10",
      body |-> [json |-> TRUE, cryptocurrency |-> "", email |-> "a@b.co"]]}

NoBody == [raw |-> "none", hasAsset |-> FALSE, usd |-> 0,
           hasChange |-> FALSE, change |-> 0, hasCap |-> FALSE, cap |-> 0]

\* bodies of an upstream 200 answer: raw is "empty", "malformed" (not JSON)
\* or "json"; hasAsset: the parsed object has the requested asset's key
UpstreamBodies ==
    {[NoBody EXCEPT !.raw = "empty"],
     [NoBody EXCEPT !.raw = "malformed"],
     [NoBody EXCEPT !.raw = "json"],
     [NoBody EXCEPT !.raw = "json", !.hasAsset = TRUE, !.usd = -1],
     [raw |-> "json", hasAsset |-> TRUE, usd |-> 100,
      hasChange |-> TRUE, change |-> -3, hasCap |-> TRUE, cap |-> 5000],
     [raw |-> "json", hasAsset |-> TRUE, usd |-> 200,
      hasChange |-> FALSE, change |-> 0, hasCap |-> FALSE, cap |-> 0]}

\* what one https.get can end with: a response, a request 'error' event,
\* or the 10 s timer
UpstreamResults ==
    {[type |-> "response", statusCode |-> sc, contentType |-> "application/json",
      code |-> "", message |-> "", body |-> NoBody] : sc \in {429, 503, 404, 400}}
    \cup {[type |-> "response", statusCode |-> 200, contentType |-> "application/json",
           code |-> "", message |-> "", body |-> b] : b \in UpstreamBodies}
    \cup {[type |-> "response", statusCode |-> 200, contentType |-> "text/html",
           code |-> "", message |-> "", body |-> NoBody]}
    \cup {[type |-> "error", statusCode |-> 0, contentType |-> "",
           code |-> c, message |-> "socket hang up", body |-> NoBody] :
              c \in {"ENOTFOUND", "ETIMEDOUT", "ECONNRESET"}}
    \cup {[type |-> "timeout", statusCode |-> 0, contentType |-> "",
           code |-> "", message |-> "", body |-> NoBody]}

\* errors of docClient.send(PutCommand): name and message
StoreErrors ==
    {[name |-> "ProvisionedThroughputExceededException",
      message |-> "The level of configured provisioned throughput for the table was exceeded."],
     [name |-> "ResourceNotFoundException",
      message |-> "Requested resource not found"],
     [name |-> "InternalServerError",
      message |-> "Internal server error"]}

ConditionalCheckFailed ==
    [name |-> "ConditionalCheckFailedException", message |-> "The conditional request failed"]

\* errors of sesClient.send(SendEmailCommand)
EmailErrors ==
    {[name |-> "MessageRejected", message |-> "Email address is not verified."],
     [name |-> "InvalidParameterValue", message |-> "Email address is not verified."],
     [name |-> "Throttling", message |-> "Maximum sending rate exceeded."]}

(***************************************************************************)
(* State.                                                                  *)
(***************************************************************************)
VARIABLES
    now,        \* Date.now(), ms
    table,      \* the DynamoDB table: a set of items, at most one per id
    outbox,     \* e-mails SES accepted
    pc,         \* per invocation: the await it is suspended at
    event,      \* per invocation: the event it was invoked with
    local,      \* per invocation: the handler's local variables
    response,   \* per invocation: the response returned
    trace,      \* per invocation: history of what it did (observation only)
    faults      \* failures injected so far

vars == <<now, table, outbox, pc, event, local, response, trace, faults>>

NoResult == [type |-> "", statusCode |-> 0, contentType |-> "",
             code |-> "", message |-> "", body |-> NoBody]

NoPriceData ==
    [cryptocurrency |-> "", price |-> 0, currency |-> "", change24h |-> 0, marketCap |-> 0]
NoItem == [id |-> ""]
NoEvent == [httpMethod |-> "", requestId |-> "",
            body |-> [json |-> TRUE, cryptocurrency |-> "", email |-> ""]]
NoResponse == [statusCode |-> 0, body |-> [raw |-> ""]]
\* params.ExclusiveStartKey of a QueryCommand that has none
NoStartKey == [ok |-> FALSE, kind |-> "", props |-> <<>>, rest |-> ""]
\* what validateQueryParams returns ("" for an absent property)
NoValidated == [limit |-> 0, email |-> "", cryptocurrency |-> "", nextToken |-> ""]

InitLocal ==
    [startTime |-> 0, requestId |-> "", cryptocurrency |-> "", email |-> "",
     attempt |-> 0, lastError |-> "", delay |-> 0, priceData |-> NoPriceData,
     item |-> NoItem, storeAttempt |-> 0, storedData |-> NoItem,
     validated |-> NoValidated, ExclusiveStartKey |-> NoStartKey]

\* prior: the invocations that had ended with a stored record when this one
\* began; cacheRead/cacheAge/cacheSeen: what the cache GetCommand returned;
\* lastResult: what the last https.get ended with; only503: every failed
\* https.get so far was an HTTP 503; sameId: every retried write carried the
\* id of the write before it; lastPutError: the error of the last write, ""
\* when it succeeded; putCalls/putOk: writes sent / writes that succeeded
\* cacheWrite: "none", or how setCachedPrice's PutCommand ended ("ok",
\* "failed"); queries: QueryCommands the history handler sent
InitTrace ==
    [prior |-> {},
     cacheRead |-> "none", cacheAge |-> 0, cacheSeen |-> NoPriceData,
     upstreamCalls |-> 0, lastResult |-> NoResult, only503 |-> TRUE, delays |-> <<>>,
     uuidCalls |-> 0, putCalls |-> 0, sameId |-> TRUE, lastPutError |-> "",
     storeDelays |-> <<>>, putOk |-> 0, sesCalls |-> 0, sesFailed |-> FALSE,
     cacheWrite |-> "none", queries |-> 0,
     queryError |-> [name |-> "", message |-> ""]]

Init ==
    /\ now = 0
    /\ table = {}
    /\ outbox = {}
    /\ pc = [r \in Reqs |-> "idle"]
    /\ event = [r \in Reqs |-> NoEvent]
    /\ local = [r \in Reqs |-> InitLocal]
    /\ response = [r \in Reqs |-> NoResponse]
    /\ trace = [r \in Reqs |-> InitTrace]
    /\ faults = 0

(***************************************************************************)
(* The table (DynamoDB): primary key id.                                   *)
(***************************************************************************)
HasItem(tbl, key) == \E i \in tbl : i.id = key
GetItem(tbl, key) == CHOOSE i \in tbl : i.id = key
\* a variant of the write that adds the item beside what is there
PutItem_beside(tbl, item) == tbl \cup {item}

\* PutCommand without condition: replaces the item of that id
PutItem(tbl, item) == {i \in tbl : i.id # item.id} \cup {item}

\* sparse secondary indexes: only items that have the index's key attributes
TypeTimestampIndex(tbl) ==
    {i \in tbl : "recordType" \in DOMAIN i /\ "timestamp" \in DOMAIN i}
EmailIndex(tbl) ==
    {i \in tbl : "email" \in DOMAIN i /\ "timestamp" \in DOMAIN i}

\* queryRecentHistory's key condition: recordType = 'SEARCH'
RecentHistoryItems(tbl) == {i \in TypeTimestampIndex(tbl) : i.recordType = "SEARCH"}
\* queryHistoryByEmail's key condition: email = :email
HistoryByEmailItems(tbl, email) == {i \in EmailIndex(tbl) : i.email = email}

(***************************************************************************)
(* getCachedPrice / setCachedPrice                                         *)
(***************************************************************************)
cacheKey(cryptoId) == "price_cache_" \o cryptoId

\* a variant of the freshness test with the comparison turned round
IsFresh_reversed(cacheAge) == cacheAge >= CACHE_TTL

\* a variant of the test that trusts an entry until its storage expiry
IsFresh_untilExpiry(cacheAge) == cacheAge < CACHE_EXPIRY_S * 1000

\* the freshness test of getCachedPrice
IsFresh(cacheAge) == cacheAge < CACHE_TTL

\* getCachedPrice: sendOk = FALSE is a GetCommand that threw (caught: miss)
getCachedPrice(tbl, cryptoId, sendOk, t) ==
    IF sendOk /\ HasItem(tbl, cacheKey(cryptoId))
    THEN LET Item == GetItem(tbl, cacheKey(cryptoId))
             cacheAge == t - getTime(Item.timestamp)
         IN  IF IsFresh(cacheAge)
             THEN [hit |-> TRUE, priceData |-> Item.priceData]
             ELSE [hit |-> FALSE, priceData |-> NoPriceData]
    ELSE [hit |-> FALSE, priceData |-> NoPriceData]

\* the Item setCachedPrice puts
\* a variant of the cache entry that carries the record type of the
\* history records
CacheItem_typed(cryptoId, priceData, t) ==
    [id |-> cacheKey(cryptoId), priceData |-> priceData, recordType |-> "SEARCH",
     timestamp |-> toISOString(t), ttl |-> (t \div 1000) + CACHE_EXPIRY_S]

CacheItem(cryptoId, priceData, t) ==
    [id |-> cacheKey(cryptoId), priceData |-> priceData,
     timestamp |-> toISOString(t), ttl |-> (t \div 1000) + CACHE_EXPIRY_S]

(***************************************************************************)
(* fetchCryptoPrice: what the promise settles with for one https.get       *)
(***************************************************************************)
fetchCryptoPrice(cryptoId, res) ==
    LET reject(msg) == [ok |-> FALSE, message |-> msg, priceData |-> NoPriceData]
    IN  IF res.type = "error"
        THEN reject(IF res.code = "ENOTFOUND" THEN ERROR_MESSAGES.NETWORK_UNREACHABLE
                    ELSE IF res.code = "ETIMEDOUT" THEN ERROR_MESSAGES.CONNECTION_TIMEOUT
                    ELSE "Network error: " \o res.message)
        ELSE IF res.type = "timeout"
        THEN reject("Request timeout after " \o ToString(API_CONFIG.TIMEOUT) \o "ms")
        ELSE IF res.statusCode # 200
        THEN reject(IF res.statusCode = 429 THEN ERROR_MESSAGES.RATE_LIMIT_EXCEEDED
                    ELSE IF res.statusCode >= 500 THEN ERROR_MESSAGES.API_UNAVAILABLE
                    ELSE IF res.statusCode = 404 THEN ERROR_MESSAGES.CRYPTO_NOT_FOUND
                    ELSE "API request failed with status " \o ToString(res.statusCode))
        ELSE IF ~includes(res.contentType, "application/json")
        THEN reject("API returned unexpected content type")
        ELSE IF res.body.raw = "empty"
        THEN reject(ERROR_MESSAGES.EMPTY_API_RESPONSE)
        ELSE IF res.body.raw = "malformed"
        THEN reject("Unexpected token < in JSON at position 0")
        ELSE IF ~res.body.hasAsset
        THEN reject("Cryptocurrency '" \o cryptoId \o "' not found in API response")
        ELSE IF res.body.usd < 0
        THEN reject(ERROR_MESSAGES.INVALID_PRICE_DATA)
        ELSE [ok |-> TRUE, message |-> "",
              priceData |-> [cryptocurrency |-> cryptoId,
                             price |-> res.body.usd,
                             currency |-> "usd",
                             change24h |-> IF res.body.hasChange THEN res.body.change ELSE 0,
                             marketCap |-> IF res.body.hasCap THEN res.body.cap ELSE 0]]

(***************************************************************************)
(* fetchCryptoPriceWithRetry                                               *)
(***************************************************************************)
\* a variant of isRetryableError that also retries a not-found
isRetryableError_notFound(message) ==
    \/ includes(message, "timeout")
    \/ includes(message, "temporarily unavailable")
    \/ includes(message, "Rate limit")
    \/ includes(message, "Network error")
    \/ includes(message, "status 5")
    \/ includes(message, "not found")

isRetryableError(message) ==
    \/ includes(message, "timeout")
    \/ includes(message, "temporarily unavailable")
    \/ includes(message, "Rate limit")
    \/ includes(message, "Network error")
    \/ includes(message, "status 5")

RECURSIVE pow2(_)
pow2(n) == IF n <= 0 THEN 1 ELSE 2 * pow2(n - 1)

\* a variant of the delay whose exponent is attempt, not attempt - 1
BackoffDelay_late(attempt) == API_CONFIG.BACKOFF_BASE * pow2(attempt)

\* API_CONFIG.BACKOFF_BASE * Math.pow(2, attempt - 1)
BackoffDelay(attempt) == API_CONFIG.BACKOFF_BASE * pow2(attempt - 1)

\* a variant of the catch block's test without the last-attempt clause
FetchGivesUp_noLast(message, attempt) == ~isRetryableError(message)

\* the catch block's test: break out of the loop
FetchGivesUp(message, attempt) ==
    ~isRetryableError(message) \/ attempt = API_CONFIG.MAX_RETRIES

FetchFailure(lastErrorMessage) ==
    "Failed to fetch price after " \o ToString(API_CONFIG.MAX_RETRIES)
        \o " attempts: " \o lastErrorMessage

(***************************************************************************)
(* storeSearchHistory                                                      *)
(***************************************************************************)
\* the item built at the top of every call of storeSearchHistory
HistoryItem(id, t, priceData, email) ==
    [id |-> id,
     timestamp |-> toISOString(t),
     recordType |-> "SEARCH",
     ttl |-> (t \div 1000) + (TTL_DAYS * 24 * 60 * 60),
     cryptocurrency |-> priceData.cryptocurrency,
     price |-> priceData.price,
     currency |-> priceData.currency,
     change24h |-> priceData.change24h,
     marketCap |-> priceData.marketCap,
     email |-> email]

\* a variant of the retry test that never gives up on throttling
StoreRetries_forever(errorName, attempt) ==
    errorName = "ProvisionedThroughputExceededException"

\* a variant of the retry test that also retries a missing table
StoreRetries_notFound(errorName, attempt) ==
    /\ errorName \in {"ProvisionedThroughputExceededException", "ResourceNotFoundException"}
    /\ attempt < API_CONFIG.MAX_RETRIES

\* a variant of the retry test that allows one more attempt
StoreRetries_oneMore(errorName, attempt) ==
    errorName = "ProvisionedThroughputExceededException" /\ attempt <= API_CONFIG.MAX_RETRIES

\* the first test of the catch block: retry the write
StoreRetries(errorName, attempt) ==
    errorName = "ProvisionedThroughputExceededException" /\ attempt < API_CONFIG.MAX_RETRIES

\* the Error storeSearchHistory throws when it does not retry
StoreFailure(error) ==
    IF error.name = "ResourceNotFoundException"
    THEN ERROR_MESSAGES.TABLE_NOT_FOUND
    ELSE "Failed to store search history: " \o error.message

(***************************************************************************)
(* handler: responses                                                      *)
(***************************************************************************)
mapErrorToStatusCode(message) ==
    IF includes(message, "Failed to fetch") THEN STATUS_CODES.SERVICE_UNAVAILABLE
    ELSE IF includes(message, "Failed to store") THEN STATUS_CODES.SERVICE_UNAVAILABLE
    ELSE IF includes(message, "Rate limit") THEN STATUS_CODES.RATE_LIMIT
    ELSE IF includes(message, "not found") THEN STATUS_CODES.NOT_FOUND
    ELSE IF includes(message, "misconfigured") THEN STATUS_CODES.SERVER_ERROR
    ELSE STATUS_CODES.SERVER_ERROR

\* the outer catch of the handler
ErrorResponse(message, requestId, duration) ==
    LET statusCode == mapErrorToStatusCode(message)
        errorMessage ==
            IF statusCode = STATUS_CODES.SERVER_ERROR /\ ~includes(message, "misconfigured")
            THEN "Internal server error"
            ELSE message
    IN  [statusCode |-> statusCode,
         body |-> [success |-> FALSE, error |-> errorMessage,
                   requestId |-> requestId, duration |-> duration]]

\* the two early returns of the handler (missing fields, validation error)
BadRequestResponse(message, requestId) ==
    [statusCode |-> STATUS_CODES.BAD_REQUEST,
     body |-> [success |-> FALSE, error |-> message, requestId |-> requestId]]

\* data: { id: storedData.id, ...priceData, timestamp: storedData.timestamp }
ResponseData(storedData, priceData) ==
    [id |-> storedData.id,
     cryptocurrency |-> priceData.cryptocurrency,
     price |-> priceData.price,
     currency |-> priceData.currency,
     change24h |-> priceData.change24h,
     marketCap |-> priceData.marketCap,
     timestamp |-> storedData.timestamp]

SuccessResponse(storedData, priceData, requestId, duration) ==
    [statusCode |-> STATUS_CODES.SUCCESS,
     body |-> [success |-> TRUE,
               message |-> "Price fetched and email sent successfully",
               data |-> ResponseData(storedData, priceData),
               requestId |-> requestId, duration |-> duration]]

\* the catch (emailError) block
PartialSuccessResponse(storedData, priceData, requestId, duration) ==
    [statusCode |-> STATUS_CODES.PARTIAL_SUCCESS,
     body |-> [success |-> TRUE,
               warning |-> "Email delivery failed, but data was saved successfully",
               data |-> ResponseData(storedData, priceData),
               requestId |-> requestId, duration |-> duration]]

OptionsResponse == [statusCode |-> 200, body |-> [raw |-> ""]]

(***************************************************************************)
(* Actions.                                                                *)
(***************************************************************************)
\* the handler returns resp
Finish(r, resp, loc, tr) ==
    /\ pc' = [pc EXCEPT ![r] = "done"]
    /\ response' = [response EXCEPT ![r] = resp]
    /\ local' = [local EXCEPT ![r] = loc]
    /\ trace' = [trace EXCEPT ![r] = tr]

\* the handler suspends at the await `label`
Goto(r, label, loc, tr) ==
    /\ pc' = [pc EXCEPT ![r] = label]
    /\ local' = [local EXCEPT ![r] = loc]
    /\ trace' = [trace EXCEPT ![r] = tr]
    /\ UNCHANGED response

\* storeSearchHistory(data, attempt) up to its await: a fresh id and
\* timestamp, then the conditional PutCommand is sent
CallStore(r, loc, tr, attempt) ==
    \E id \in Uuids :
        Goto(r, "store",
             [loc EXCEPT !.storeAttempt = attempt,
                         !.item = HistoryItem(id, now, loc.priceData, loc.email)],
             [tr EXCEPT !.uuidCalls = @ + 1,
                        !.sameId = @ /\ (attempt = 1 \/ id = loc.item.id)])

\* the environment injects a failure (fails) or not
Inject(fails) ==
    IF fails THEN faults < MaxFaults /\ faults' = faults + 1 ELSE UNCHANGED faults

\* handler, from its entry to the first await (the cache GetCommand)
Invoke(r, ev) ==
    /\ pc[r] = "idle"
    /\ event' = [event EXCEPT ![r] = ev]
    /\ UNCHANGED <<now, table, outbox, faults>>
    /\ LET requestId == IF ev.requestId = "" THEN "unknown" ELSE ev.requestId
           validated == validateInput(ev.body.cryptocurrency, ev.body.email)
           loc == [local[r] EXCEPT !.startTime = now, !.requestId = requestId]
           tr == [trace[r] EXCEPT !.prior =
                     {q \in Reqs : pc[q] = "done" /\ response[q].statusCode \in {200, 207}
                                   /\ event[q].httpMethod # "OPTIONS"}]
       IN  IF ev.httpMethod = "OPTIONS"
           THEN Finish(r, OptionsResponse, local[r], tr)
           ELSE IF ~ev.body.json
           THEN Finish(r, ErrorResponse(ERROR_MESSAGES.INVALID_JSON, requestId, 0), loc, tr)
           ELSE IF ev.body.cryptocurrency = "" \/ ev.body.email = ""
           THEN Finish(r, BadRequestResponse(ERROR_MESSAGES.MISSING_FIELDS, requestId), loc, tr)
           ELSE IF ~validated.ok
           THEN Finish(r, BadRequestResponse(validated.error, requestId), loc, tr)
           ELSE Goto(r, "cacheGet",
                     [loc EXCEPT !.cryptocurrency = validated.cryptocurrency,
                                 !.email = validated.email],
                     tr)

\* a variant in which the handler calls upstream whatever the cache holds
CacheGet_alwaysFetch(r, sendOk) ==
    /\ pc[r] = "cacheGet"
    /\ Inject(~sendOk)
    /\ UNCHANGED <<now, table, outbox, event>>
    /\ LET cryptoId == local[r].cryptocurrency
           present == HasItem(table, cacheKey(cryptoId))
           seen == IF present THEN GetItem(table, cacheKey(cryptoId)) ELSE NoItem
           tr == [trace[r] EXCEPT
                    !.cacheRead = IF ~sendOk THEN "error"
                                  ELSE IF ~present THEN "absent" ELSE "found",
                    !.cacheAge = IF sendOk /\ present
                                 THEN now - getTime(seen.timestamp) ELSE 0,
                    !.cacheSeen = IF sendOk /\ present THEN seen.priceData ELSE NoPriceData]
       IN  Goto(r, "fetch", [local[r] EXCEPT !.attempt = 1], tr)

\* getCachedPrice's GetCommand completes (sendOk) or throws; on a hit the
\* handler goes on to storeSearchHistory, on a miss to the first https.get
CacheGet(r, sendOk) ==
    /\ pc[r] = "cacheGet"
    /\ Inject(~sendOk)
    /\ UNCHANGED <<now, table, outbox, event>>
    /\ LET cryptoId == local[r].cryptocurrency
           cachedData == getCachedPrice(table, cryptoId, sendOk, now)
           present == HasItem(table, cacheKey(cryptoId))
           seen == IF present THEN GetItem(table, cacheKey(cryptoId)) ELSE NoItem
           tr == [trace[r] EXCEPT
                    !.cacheRead = IF ~sendOk THEN "error"
                                  ELSE IF ~present THEN "absent" ELSE "found",
                    !.cacheAge = IF sendOk /\ present
                                 THEN now - getTime(seen.timestamp) ELSE 0,
                    !.cacheSeen = IF sendOk /\ present THEN seen.priceData ELSE NoPriceData]
       IN  IF cachedData.hit
           THEN CallStore(r, [local[r] EXCEPT !.priceData = cachedData.priceData], tr, 1)
           ELSE Goto(r, "fetch", [local[r] EXCEPT !.attempt = 1], tr)

\* one https.get settles with res: success goes on to setCachedPrice, a
\* failure either ends the loop (the wrapped error reaches the handler's
\* catch) or starts the backoff timer
Upstream(r, res) ==
    /\ pc[r] = "fetch"
    /\ Inject(~fetchCryptoPrice(local[r].cryptocurrency, res).ok)
    /\ UNCHANGED <<now, table, outbox, event>>
    /\ LET cryptoId == local[r].cryptocurrency
           attempt == local[r].attempt
           f == fetchCryptoPrice(cryptoId, res)
           tr == [trace[r] EXCEPT
                    !.upstreamCalls = @ + 1,
                    !.lastResult = res,
                    !.only503 = @ /\ (f.ok \/ res.statusCode = 503)]
       IN  IF f.ok
           THEN Goto(r, "cacheSet",
                     [local[r] EXCEPT !.priceData = f.priceData,
                                      !.lastError = "",
                                      !.item = CacheItem(cryptoId, f.priceData, now)],
                     tr)
           ELSE IF FetchGivesUp(f.message, attempt)
           THEN Finish(r,
                       ErrorResponse(FetchFailure(f.message), local[r].requestId,
                                     now - local[r].startTime),
                       [local[r] EXCEPT !.lastError = f.message], tr)
           ELSE Goto(r, "backoff",
                     [local[r] EXCEPT !.lastError = f.message,
                                      !.delay = BackoffDelay(attempt)],
                     [tr EXCEPT !.delays = Append(@, BackoffDelay(attempt))])

\* the backoff timer fires: attempt++ and the loop test; the next https.get,
\* or past the loop the throw of the wrapped last error
BackoffDone(r) ==
    /\ pc[r] = "backoff"
    /\ UNCHANGED <<now, table, outbox, event, faults>>
    /\ IF local[r].attempt + 1 <= API_CONFIG.MAX_RETRIES
       THEN Goto(r, "fetch", [local[r] EXCEPT !.attempt = @ + 1, !.delay = 0], trace[r])
       ELSE Finish(r,
                   ErrorResponse(FetchFailure(local[r].lastError), local[r].requestId,
                                 now - local[r].startTime),
                   [local[r] EXCEPT !.attempt = @ + 1, !.delay = 0], trace[r])

\* a variant in which the error of a failed cache write is not swallowed
\* and reaches the handler's outer catch
CacheSet_throws(r, sendOk) ==
    /\ pc[r] = "cacheSet"
    /\ Inject(~sendOk)
    /\ table' = IF sendOk THEN PutItem(table, local[r].item) ELSE table
    /\ UNCHANGED <<now, outbox, event>>
    /\ IF sendOk
       THEN CallStore(r, local[r], [trace[r] EXCEPT !.cacheWrite = "ok"], 1)
       ELSE Finish(r,
                   ErrorResponse("Internal server error", local[r].requestId,
                                 now - local[r].startTime),
                   local[r], [trace[r] EXCEPT !.cacheWrite = "failed"])

\* setCachedPrice's PutCommand completes (sendOk) or throws (swallowed);
\* fetchCryptoPriceWithRetry returns and the handler calls storeSearchHistory
CacheSet(r, sendOk) ==
    /\ pc[r] = "cacheSet"
    /\ Inject(~sendOk)
    /\ table' = IF sendOk THEN PutItem(table, local[r].item) ELSE table
    /\ UNCHANGED <<now, outbox, event>>
    /\ CallStore(r, local[r],
                 [trace[r] EXCEPT !.cacheWrite = IF sendOk THEN "ok" ELSE "failed"], 1)

\* the conditional PutCommand succeeded: the handler goes on to the e-mail
StoreSucceeded(r) ==
    /\ table' = table \cup {local[r].item}
    /\ Goto(r, "email", [local[r] EXCEPT !.storedData = local[r].item],
            [trace[r] EXCEPT !.putCalls = @ + 1, !.putOk = @ + 1, !.lastPutError = ""])

\* a variant of the catch block that swallows the error: the handler goes
\* on to the e-mail as if the record had been stored
StoreFailed_swallowed(r, error) ==
    /\ UNCHANGED table
    /\ Goto(r, "email", [local[r] EXCEPT !.storedData = local[r].item],
            [trace[r] EXCEPT !.putCalls = @ + 1, !.lastPutError = error.name])

\* a variant of the catch block that takes the request's cache entry back
\* when the write is given up
StoreFailed_undoesCache(r, error) ==
    LET tr == [trace[r] EXCEPT !.putCalls = @ + 1, !.lastPutError = error.name]
    IN  IF StoreRetries(error.name, local[r].storeAttempt)
        THEN /\ UNCHANGED table
             /\ Goto(r, "storeBackoff",
                     [local[r] EXCEPT !.delay = BackoffDelay(local[r].storeAttempt)],
                     [tr EXCEPT !.storeDelays =
                                   Append(@, BackoffDelay(local[r].storeAttempt))])
        ELSE /\ table' = {i \in table : i.id # cacheKey(local[r].cryptocurrency)}
             /\ Finish(r,
                       ErrorResponse(StoreFailure(error), local[r].requestId,
                                     now - local[r].startTime),
                       local[r], tr)

\* the catch block of storeSearchHistory
StoreFailed(r, error) ==
    /\ UNCHANGED table
    /\ LET tr == [trace[r] EXCEPT !.putCalls = @ + 1, !.lastPutError = error.name]
       IN  IF StoreRetries(error.name, local[r].storeAttempt)
           THEN Goto(r, "storeBackoff",
                     [local[r] EXCEPT !.delay = BackoffDelay(local[r].storeAttempt)],
                     [tr EXCEPT !.storeDelays =
                                   Append(@, BackoffDelay(local[r].storeAttempt))])
           ELSE Finish(r,
                       ErrorResponse(StoreFailure(error), local[r].requestId,
                                     now - local[r].startTime),
                       local[r], tr)

\* a variant in which the PutCommand carries no condition: the item
\* replaces whatever the table holds under its id
StorePut_unconditional(r, err) ==
    /\ pc[r] = "store"
    /\ Inject(err # "")
    /\ UNCHANGED <<now, outbox, event>>
    /\ IF err # ""
       THEN \E e \in StoreErrors : e.name = err /\ StoreFailed(r, e)
       ELSE /\ table' = PutItem(table, local[r].item)
            /\ Goto(r, "email", [local[r] EXCEPT !.storedData = local[r].item],
                    [trace[r] EXCEPT !.putCalls = @ + 1, !.putOk = @ + 1,
                                     !.lastPutError = ""])

\* the PutCommand of storeSearchHistory completes: err is the error the
\* service answers with ("" for none); without one the condition
\* attribute_not_exists(id) decides
StorePut(r, err) ==
    /\ pc[r] = "store"
    /\ Inject(err # "")
    /\ UNCHANGED <<now, outbox, event>>
    /\ IF err # ""
       THEN \E e \in StoreErrors : e.name = err /\ StoreFailed(r, e)
       ELSE IF HasItem(table, local[r].item.id)
       THEN StoreFailed(r, ConditionalCheckFailed)
       ELSE StoreSucceeded(r)

\* the store's backoff timer fires: storeSearchHistory(data, attempt + 1)
StoreBackoffDone(r) ==
    /\ pc[r] = "storeBackoff"
    /\ UNCHANGED <<now, table, outbox, event, faults>>
    /\ CallStore(r, [local[r] EXCEPT !.delay = 0], trace[r], local[r].storeAttempt + 1)

\* a variant in which the e-mail error is not caught where it is thrown
\* and reaches the handler's outer catch
EmailFailed_escapes(r) ==
    Finish(r,
           ErrorResponse("Failed to send email: Email address is not verified.",
                         local[r].requestId, now - local[r].startTime),
           local[r],
           [trace[r] EXCEPT !.sesCalls = @ + 1, !.sesFailed = TRUE])

\* what the handler returns when sendEmailNotification threw
EmailFailed(r) ==
    Finish(r,
           PartialSuccessResponse(local[r].storedData, local[r].priceData,
                                  local[r].requestId, now - local[r].startTime),
           local[r],
           [trace[r] EXCEPT !.sesCalls = @ + 1, !.sesFailed = TRUE])

\* the SendEmailCommand completes: err is the SES error name ("" for none)
SendEmail(r, err) ==
    /\ pc[r] = "email"
    /\ Inject(err # "")
    /\ UNCHANGED <<now, table, event>>
    /\ IF err = ""
       THEN /\ outbox' = outbox \cup
                   {[req |-> r, to |-> local[r].email, priceData |-> local[r].priceData]}
            /\ Finish(r,
                      SuccessResponse(local[r].storedData, local[r].priceData,
                                      local[r].requestId, now - local[r].startTime),
                      local[r],
                      [trace[r] EXCEPT !.sesCalls = @ + 1])
       ELSE /\ UNCHANGED outbox
            /\ EmailFailed(r)

\* time passes
Tick ==
    /\ now < MaxTicks * TickMs
    /\ now' = now + TickMs
    /\ UNCHANGED <<table, outbox, pc, event, local, response, trace, faults>>

\* time passes while no invocation is in flight
TickBetween ==
    /\ \A r \in Reqs : pc[r] \in {"idle", "done"}
    /\ Tick

\* the table's time-to-live: an item whose ttl (epoch seconds) has passed
\* is deleted by the store, at some later time
TtlExpire ==
    /\ \E i \in table : i.ttl <= now \div 1000 /\ table' = table \ {i}
    /\ UNCHANGED <<now, outbox, pc, event, local, response, trace, faults>>

\* a table earlier invocations left behind at time 0: a cache entry of
\* bitcoin and/or the history record of the fetch that wrote it
EarlierPriceData ==
    [cryptocurrency |-> "bitcoin", price |-> 300, currency |-> "usd",
     change24h |-> 7, marketCap |-> 9000]

EarlierTables ==
    {{}, {CacheItem("bitcoin", EarlierPriceData, 0)},
     {HistoryItem("uuid-1", 0, EarlierPriceData, "e@f.org")},
     {CacheItem("bitcoin", EarlierPriceData, 0),
      HistoryItem("uuid-1", 0, EarlierPriceData, "e@f.org")}}

(***************************************************************************)
(* Spec: NumReqs concurrent invocations, starting from an empty table.     *)
(* The invocations overlap within one clock tick and the clock moves       *)
(* between them.  The upstream answers or fails for good (no retryable     *)
(* failure, so no fetch backoff); the cache, the history write (throttling *)
(* included) and the e-mail fail as in SpecOne.                            *)
(***************************************************************************)
ConcurrentEvents == {ev \in Events : ev.requestId # "rq-2"}
ConcurrentResults ==
    {res \in UpstreamResults :
        \/ res.type = "response" /\ res.statusCode = 404
        \/ fetchCryptoPrice("bitcoin", res).ok}

Next ==
    \/ \E r \in Reqs, ev \in ConcurrentEvents : Invoke(r, ev)
    \/ \E r \in Reqs, sendOk \in BOOLEAN : CacheGet(r, sendOk)
    \/ \E r \in Reqs, res \in ConcurrentResults : Upstream(r, res)
    \/ \E r \in Reqs, sendOk \in BOOLEAN : CacheSet(r, sendOk)
    \/ \E r \in Reqs, err \in {""} \cup {e.name : e \in StoreErrors} : StorePut(r, err)
    \/ \E r \in Reqs : StoreBackoffDone(r)
    \/ \E r \in Reqs, err \in {"", "MessageRejected"} : SendEmail(r, err)
    \/ TickBetween
    \/ TtlExpire

Spec == Init /\ [][Next]_vars

(***************************************************************************)
(* SpecOne: one invocation, with every input and every failure, against a  *)
(* table earlier invocations left behind.                                  *)
(***************************************************************************)
InitOne ==
    /\ now = 0
    /\ table \in EarlierTables
    /\ outbox = {}
    /\ pc = [r \in Reqs |-> "idle"]
    /\ event = [r \in Reqs |-> NoEvent]
    /\ local = [r \in Reqs |-> InitLocal]
    /\ response = [r \in Reqs |-> NoResponse]
    /\ trace = [r \in Reqs |-> InitTrace]
    /\ faults = 0

NextOne ==
    \/ \E ev \in Events : Invoke(1, ev)
    \/ \E sendOk \in BOOLEAN : CacheGet(1, sendOk)
    \/ \E res \in UpstreamResults : Upstream(1, res)
    \/ BackoffDone(1)
    \/ \E sendOk \in BOOLEAN : CacheSet(1, sendOk)
    \/ \E err \in {""} \cup {e.name : e \in StoreErrors} : StorePut(1, err)
    \/ StoreBackoffDone(1)
    \/ \E err \in {""} \cup {e.name : e \in EmailErrors} : SendEmail(1, err)
    \/ Tick
    \/ TtlExpire

SpecOne == InitOne /\ [][NextOne]_vars

(***************************************************************************)
(* SpecLive: the one invocation of SpecOne with every external call free   *)
(* to fail (the fault budget covers one failure of each call the request   *)
(* can make) and with fairness: an external call that was sent completes,  *)
(* by an answer, an error or the request timer, and a backoff timer that   *)
(* was set fires.                                                          *)
(***************************************************************************)
\* the calls one request can make: a cache read, MAX_RETRIES upstream
\* calls, a cache write, MAX_RETRIES history writes, an e-mail
CallsPerRequest == 3 + 2 * API_CONFIG.MAX_RETRIES

InitLive ==
    /\ now = 0
    /\ table \in EarlierTables
    /\ outbox = {}
    /\ pc = [r \in Reqs |-> "idle"]
    /\ event = [r \in Reqs |-> NoEvent]
    /\ local = [r \in Reqs |-> InitLocal]
    /\ response = [r \in Reqs |-> NoResponse]
    /\ trace = [r \in Reqs |-> InitTrace]
    /\ faults = MaxFaults - CallsPerRequest

\* a step of the request: a call completes or a timer fires
Proceed ==
    \/ \E sendOk \in BOOLEAN : CacheGet(1, sendOk)
    \/ \E res \in UpstreamResults : Upstream(1, res)
    \/ BackoffDone(1)
    \/ \E sendOk \in BOOLEAN : CacheSet(1, sendOk)
    \/ \E err \in {""} \cup {e.name : e \in StoreErrors} : StorePut(1, err)
    \/ StoreBackoffDone(1)
    \/ \E err \in {""} \cup {e.name : e \in EmailErrors} : SendEmail(1, err)

NextLive ==
    \/ \E ev \in Events : Invoke(1, ev)
    \/ Proceed

SpecLive == InitLive /\ [][NextLive]_vars /\ WF_vars(Proceed)

(***************************************************************************)
(* getSearchHistory/config.js                                              *)
(***************************************************************************)
DYNAMODB_CONFIG ==
    [GSI_NAME |-> "email-timestamp-index", DEFAULT_LIMIT |-> 100, MAX_LIMIT |-> 500]

HISTORY_STATUS_CODES ==
    [SUCCESS |-> 200, BAD_REQUEST |-> 400, NOT_FOUND |-> 404,
     SERVER_ERROR |-> 500, SERVICE_UNAVAILABLE |-> 503]

HISTORY_ERROR_MESSAGES ==
    [INVALID_LIMIT |-> "Limit must be a valid number greater than 0",
     LIMIT_EXCEEDED |-> "Limit cannot exceed " \o ToString(DYNAMODB_CONFIG.MAX_LIMIT),
     INVALID_EMAIL_FORMAT |-> "Invalid email format",
     INVALID_CRYPTO_FORMAT |-> "Invalid cryptocurrency format",
     INVALID_PAGINATION_TOKEN |-> "Invalid pagination token",
     TABLE_NOT_FOUND |-> "Database table or index not found. Please contact support.",
     INDEX_NOT_AVAILABLE |-> "Email search index not available. Please contact support.",
     HIGH_LOAD |-> "Service experiencing high load. Please try again.",
     QUERY_FAILED |-> "Database query failed"]

DEFAULTS ==
    [ITEM_ID |-> "unknown", ITEM_CRYPTOCURRENCY |-> "unknown", ITEM_PRICE |-> 0,
     ITEM_CURRENCY |-> "usd", ITEM_CHANGE_24H |-> 0, ITEM_MARKET_CAP |-> 0,
     ITEM_EMAIL |-> ""]

(***************************************************************************)
(* parseInt(s, 10): leading blanks, an optional sign, then the longest run *)
(* of digits; what follows the digits is ignored; no digit is NaN.         *)
(***************************************************************************)
digitValue(c) == (CHOOSE i \in 1..Len(DigitChars) : charAt(DigitChars, i) = c) - 1

RECURSIVE digitRun(_)
digitRun(s) ==
    IF Len(s) > 0 /\ includes(DigitChars, charAt(s, 1))
    THEN 1 + digitRun(SubSeq(s, 2, Len(s)))
    ELSE 0

RECURSIVE digitsValue(_)
digitsValue(s) ==
    IF Len(s) = 0 THEN 0
    ELSE 10 * digitsValue(SubSeq(s, 1, Len(s) - 1)) + digitValue(charAt(s, Len(s)))

parseInt(s) ==
    LET t == trimStart(s)
        signed == Len(t) > 0 /\ charAt(t, 1) \in {"-", "+"}
        u == IF signed THEN SubSeq(t, 2, Len(t)) ELSE t
        n == digitRun(u)
        v == digitsValue(SubSeq(u, 1, n))
    IN  [isNaN |-> n = 0,
         value |-> IF signed /\ charAt(t, 1) = "-" THEN 0 - v ELSE v]

(***************************************************************************)
(* base64: Buffer.from(text).toString('base64') and                        *)
(* Buffer.from(token, 'base64').toString('utf-8').  Texts are strings of   *)
(* printable ASCII; a decoded byte that is no printable ASCII character    *)
(* (or the backquote, which no TLA+ string holds) is written "?".          *)
(***************************************************************************)
\* the characters of codes 32..95 and 97..126
AsciiLow == " !\"#$%&'()*+,-./0123456789:;<=>?@ABCDEFGHIJKLMNOPQRSTUVWXYZ[\\]^_"
AsciiHigh == "abcdefghijklmnopqrstuvwxyz{|}~"
Base64Chars == UpperChars \o LowerChars \o DigitChars \o "+/"

indexOf(s, c) == CHOOSE i \in 1..Len(s) : charAt(s, i) = c

charCode(c) ==
    IF includes(AsciiLow, c) THEN 31 + indexOf(AsciiLow, c)
    ELSE IF includes(AsciiHigh, c) THEN 96 + indexOf(AsciiHigh, c)
    ELSE 63

fromCharCode(n) ==
    IF n >= 32 /\ n <= 95 THEN charAt(AsciiLow, n - 31)
    ELSE IF n >= 97 /\ n <= 126 THEN charAt(AsciiHigh, n - 96)
    ELSE "?"

base64Char(n) == charAt(Base64Chars, n + 1)
base64Value(c) == indexOf(Base64Chars, c) - 1

\* toString('base64'): three bytes make four characters, "=" pads the end
RECURSIVE toBase64(_)
toBase64(text) ==
    LET n == Len(text)
        b1 == charCode(charAt(text, 1))
        b2 == IF n >= 2 THEN charCode(charAt(text, 2)) ELSE 0
        b3 == IF n >= 3 THEN charCode(charAt(text, 3)) ELSE 0
        c1 == base64Char(b1 \div 4)
        c2 == base64Char((b1 % 4) * 16 + b2 \div 16)
        c3 == base64Char((b2 % 16) * 4 + b3 \div 64)
        c4 == base64Char(b3 % 64)
    IN  IF n = 0 THEN ""
        ELSE IF n = 1 THEN c1 \o c2 \o "=="
        ELSE IF n = 2 THEN c1 \o c2 \o c3 \o "="
        ELSE c1 \o c2 \o c3 \o c4 \o toBase64(SubSeq(text, 4, n))

\* the decoder reads up to the first "=" and skips what is no base64
\* character
RECURSIVE base64Digits(_)
base64Digits(token) ==
    IF Len(token) = 0 \/ charAt(token, 1) = "=" THEN ""
    ELSE (IF includes(Base64Chars, charAt(token, 1)) THEN charAt(token, 1) ELSE "")
             \o base64Digits(SubSeq(token, 2, Len(token)))

\* four characters make three bytes; two left over make one, three make two
RECURSIVE decodeDigits(_)
decodeDigits(d) ==
    LET n == Len(d)
        v1 == base64Value(charAt(d, 1))
        v2 == base64Value(charAt(d, 2))
        v3 == IF n >= 3 THEN base64Value(charAt(d, 3)) ELSE 0
        v4 == IF n >= 4 THEN base64Value(charAt(d, 4)) ELSE 0
        t1 == fromCharCode(v1 * 4 + v2 \div 16)
        t2 == fromCharCode((v2 % 16) * 16 + v3 \div 4)
        t3 == fromCharCode((v3 % 4) * 64 + v4)
    IN  IF n <= 1 THEN ""
        ELSE IF n = 2 THEN t1
        ELSE IF n = 3 THEN t1 \o t2
        ELSE t1 \o t2 \o t3 \o decodeDigits(SubSeq(d, 5, n))

fromBase64(token) == decodeDigits(base64Digits(token))

(***************************************************************************)
(* JSON.stringify of an index key and JSON.parse of a text.  The parser    *)
(* reads objects whose members are strings or unsigned integers, the empty *)
(* array and scalars, written without blanks between the tokens and        *)
(* without escapes inside strings.  A member value is [type |-> "S", ...]  *)
(* or [type |-> "N", ...].                                                 *)
(***************************************************************************)
quoted(s) == "\"" \o s \o "\""

\* an ISO timestamp as text, and back ([ok |-> FALSE] for any other text)
isoText(iso) == ToString(iso[1]) \o "." \o ToString(iso[2]) \o "Z"

parseIsoText(text) ==
    LET n == digitRun(text)
        rest == slice(text, n + 2, Len(text))
        m == digitRun(rest)
    IN  IF /\ n >= 1 /\ charAt(text, n + 1) = "." /\ m >= 1
           /\ slice(rest, m + 1, Len(rest)) = "Z"
        THEN [ok |-> TRUE,
              iso |-> <<digitsValue(slice(text, 1, n)), digitsValue(slice(rest, 1, m))>>]
        ELSE [ok |-> FALSE, iso |-> <<0, 0>>]

\* JSON.stringify of a key: a flat object of strings
JSON_stringify(key) ==
    IF "email" \in DOMAIN key
    THEN "{" \o quoted("id") \o ":" \o quoted(key.id) \o ","
             \o quoted("email") \o ":" \o quoted(key.email) \o ","
             \o quoted("timestamp") \o ":" \o quoted(isoText(key.timestamp)) \o "}"
    ELSE "{" \o quoted("id") \o ":" \o quoted(key.id) \o ","
             \o quoted("recordType") \o ":" \o quoted(key.recordType) \o ","
             \o quoted("timestamp") \o ":" \o quoted(isoText(key.timestamp)) \o "}"

NoJson == [ok |-> FALSE, kind |-> "", props |-> <<>>, rest |-> ""]

\* the scalar s begins with, and what follows it
parseScalar(s) ==
    IF Len(s) >= 2 /\ charAt(s, 1) = "\"" /\ includes(slice(s, 2, Len(s)), "\"")
    THEN LET e == CHOOSE i \in 2..Len(s) :
                      charAt(s, i) = "\"" /\ \A j \in 2..(i - 1) : charAt(s, j) # "\""
         IN  [ok |-> ~includes(slice(s, 2, e - 1), "\\"), kind |-> "string",
              props |-> [type |-> "S", s |-> slice(s, 2, e - 1)],
              rest |-> slice(s, e + 1, Len(s))]
    ELSE IF digitRun(s) >= 1
    THEN [ok |-> TRUE, kind |-> "number",
          props |-> [type |-> "N", n |-> digitsValue(slice(s, 1, digitRun(s)))],
          rest |-> slice(s, digitRun(s) + 1, Len(s))]
    ELSE IF \E w \in {"null", "true", "false"} : slice(s, 1, Len(w)) = w
    THEN LET w == CHOOSE w \in {"null", "true", "false"} : slice(s, 1, Len(w)) = w
         IN  [ok |-> TRUE, kind |-> "literal", props |-> [type |-> w],
              rest |-> slice(s, Len(w) + 1, Len(s))]
    ELSE NoJson

\* the members of an object: "name":value, separated by commas
RECURSIVE parseMembers(_)
parseMembers(s) ==
    LET name == parseScalar(s)
        value == parseScalar(slice(name.rest, 2, Len(name.rest)))
        more == parseMembers(slice(value.rest, 2, Len(value.rest)))
    IN  IF ~(name.ok /\ name.kind = "string" /\ charAt(name.rest, 1) = ":") THEN NoJson
        ELSE IF ~value.ok THEN NoJson
        ELSE IF value.rest = ""
        THEN [ok |-> TRUE, kind |-> "object",
              props |-> (name.props.s :> value.props), rest |-> ""]
        ELSE IF charAt(value.rest, 1) # "," \/ ~more.ok THEN NoJson
        ELSE [ok |-> TRUE, kind |-> "object",
              props |-> more.props @@ (name.props.s :> value.props), rest |-> ""]

\* JSON.parse: ok = FALSE is the SyntaxError it throws
JSON_parse(text) ==
    LET t == trim(text)
        scalar == parseScalar(t)
    IN  IF Len(t) >= 2 /\ charAt(t, 1) = "{" /\ charAt(t, Len(t)) = "}"
        THEN IF Len(t) = 2
             THEN [ok |-> TRUE, kind |-> "object", props |-> <<>>, rest |-> ""]
             ELSE parseMembers(slice(t, 2, Len(t) - 1))
        ELSE IF t = "[]" THEN [ok |-> TRUE, kind |-> "array", props |-> <<>>, rest |-> ""]
        ELSE IF scalar.ok /\ scalar.rest = "" THEN scalar
        ELSE NoJson

\* Buffer.from(JSON.stringify(LastEvaluatedKey)).toString('base64')
encodeToken(key) == toBase64(JSON_stringify(key))

\* JSON.parse(Buffer.from(nextToken, 'base64').toString('utf-8'))
decodeToken(nextToken) == JSON_parse(fromBase64(nextToken))

(***************************************************************************)
(* validateQueryParams: the validated parameters, or the message of the    *)
(* Error thrown.  A query-string parameter is a string; "" stands for an   *)
(* absent one (both are falsy).                                            *)
(***************************************************************************)
QueryRejected(message) ==
    [ok |-> FALSE, error |-> message, validated |-> NoValidated]

validateQueryParams(queryParams) ==
    LET parsed == parseInt(queryParams.limit)
        limit == IF queryParams.limit = "" THEN DYNAMODB_CONFIG.DEFAULT_LIMIT
                 ELSE parsed.value
        email == trim(toLowerCase(queryParams.email))
        crypto == trim(toLowerCase(queryParams.cryptocurrency))
    IN  IF queryParams.limit # "" /\ (parsed.isNaN \/ parsed.value < 1)
        THEN QueryRejected(HISTORY_ERROR_MESSAGES.INVALID_LIMIT)
        ELSE IF queryParams.limit # "" /\ parsed.value > DYNAMODB_CONFIG.MAX_LIMIT
        THEN QueryRejected(HISTORY_ERROR_MESSAGES.LIMIT_EXCEEDED)
        ELSE IF /\ queryParams.email # ""
                /\ \/ email = ""
                   \/ ~EMAIL_PATTERN_test(email)
                   \/ Len(email) > EMAIL_MAX_LENGTH
        THEN QueryRejected(HISTORY_ERROR_MESSAGES.INVALID_EMAIL_FORMAT)
        ELSE IF /\ queryParams.cryptocurrency # ""
                /\ \/ crypto = ""
                   \/ Len(crypto) > CRYPTO_MAX_LENGTH
                   \/ ~CRYPTO_PATTERN_test(crypto)
        THEN QueryRejected(HISTORY_ERROR_MESSAGES.INVALID_CRYPTO_FORMAT)
        ELSE IF queryParams.nextToken # "" /\ ~decodeToken(queryParams.nextToken).ok
        THEN QueryRejected(HISTORY_ERROR_MESSAGES.INVALID_PAGINATION_TOKEN)
        ELSE [ok |-> TRUE, error |-> "",
              validated |-> [limit |-> limit,
                             email |-> IF queryParams.email = "" THEN "" ELSE email,
                             cryptocurrency |->
                                 IF queryParams.cryptocurrency = "" THEN "" ELSE crypto,
                             nextToken |-> queryParams.nextToken]]

(***************************************************************************)
(* The QueryCommand on an index, ScanIndexForward: false.  The items of a  *)
(* partition are read newest first (items of one timestamp in the order of *)
(* their ids) starting after ExclusiveStartKey; the read stops after Limit *)
(* items.  LastEvaluatedKey is the key of the last item read when the read *)
(* stopped at Limit; when the Limit-th item read was the last of the       *)
(* partition the service may return it or not (lekAtEnd).                  *)
(***************************************************************************)
NoKey == [id |-> ""]

\* the number an id of the pool ends with
idRank(id) == digitsValue(slice(id, 6, Len(id)))

\* a is read before b
ReadBefore(a, b) ==
    \/ getTime(a.timestamp) > getTime(b.timestamp)
    \/ getTime(a.timestamp) = getTime(b.timestamp) /\ idRank(a.id) > idRank(b.id)

RECURSIVE SortDescending(_)
SortDescending(items) ==
    IF items = {} THEN <<>>
    ELSE LET first == CHOOSE x \in items : \A y \in items \ {x} : ReadBefore(x, y)
         IN  <<first>> \o SortDescending(items \ {first})

\* a variant of the key that leaves the item's id out
IndexKey_noId(item, pkName) ==
    IF pkName = "email"
    THEN [id |-> "", email |-> item.email, timestamp |-> item.timestamp]
    ELSE [id |-> "", recordType |-> item.recordType, timestamp |-> item.timestamp]

\* the key of an item in the index whose partition attribute is pkName
IndexKey(item, pkName) ==
    IF pkName = "email"
    THEN [id |-> item.id, email |-> item.email, timestamp |-> item.timestamp]
    ELSE [id |-> item.id, recordType |-> item.recordType, timestamp |-> item.timestamp]

\* ExclusiveStartKey is a key of this partition of the index: an object of
\* exactly the three key attributes, all strings
IsStartKey(json, pkName, pkValue) ==
    /\ json.kind = "object"
    /\ DOMAIN json.props = {"id", pkName, "timestamp"}
    /\ \A a \in DOMAIN json.props : json.props[a].type = "S"
    /\ json.props[pkName].s = pkValue
    /\ parseIsoText(json.props["timestamp"].s).ok

StartKeyInvalid ==
    [name |-> "ValidationException", message |-> "The provided starting key is invalid"]

\* hasStart: ExclusiveStartKey was given (as the parsed token startJson)
Query(tbl, pkName, pkValue, limit, hasStart, startJson, lekAtEnd) ==
    IF hasStart /\ ~IsStartKey(startJson, pkName, pkValue)
    THEN [ok |-> FALSE, error |-> StartKeyInvalid, Items |-> <<>>, LastEvaluatedKey |-> NoKey]
    ELSE LET partition ==
                 IF pkName = "email" THEN HistoryByEmailItems(tbl, pkValue)
                 ELSE RecentHistoryItems(tbl)
             start == [id |-> startJson.props["id"].s,
                       timestamp |-> parseIsoText(startJson.props["timestamp"].s).iso]
             toRead == IF hasStart THEN {x \in partition : ReadBefore(start, x)}
                       ELSE partition
             ordered == SortDescending(toRead)
             Items == SubSeq(ordered, 1, IF Len(ordered) < limit THEN Len(ordered) ELSE limit)
         IN  [ok |-> TRUE, error |-> StartKeyInvalid, Items |-> Items,
              LastEvaluatedKey |->
                  IF Len(ordered) > limit \/ (Len(ordered) = limit /\ lekAtEnd)
                  THEN IndexKey(Items[Len(Items)], pkName)
                  ELSE NoKey]

\* the records the tables are made of: two of one instant, two recipients,
\* two assets
HistoryPool ==
    {HistoryItem("uuid-1", 0, EarlierPriceData, "a@b.co"),
     HistoryItem("uuid-2", 60000,
                 [EarlierPriceData EXCEPT !.cryptocurrency = "ethereum"], "a@b.co"),
     HistoryItem("uuid-3", 60000, EarlierPriceData, "a@b.co"),
     HistoryItem("uuid-4", 120000, EarlierPriceData, "c@d.io")}

\* tokens of earlier pages (the keys of the pool's records in both indexes)
\* and tokens no page produced: no base64 of JSON, JSON that is no object,
\* an object that is no key, the key of another recipient's partition
CursorTokens ==
    {encodeToken(IndexKey(i, pk)) : i \in HistoryPool, pk \in {"email", "recordType"}}

TamperedTokens ==
    {"not-base64!!", "NQ==", "e30=", toBase64("{\"id\":\"uuid-3\"}"),
     toBase64("{\"id\":7,\"recordType\":\"SEARCH\",\"timestamp\":\"60.0Z\"}")}

\* decodeToken and encodeToken, tabulated for the tokens and keys above
DecodedTokens == [t \in CursorTokens \cup TamperedTokens |-> decodeToken(t)] @@ <<>>
EncodedKeys ==
    [k \in {IndexKey(i, pk) : i \in HistoryPool, pk \in {"email", "recordType"}}
        |-> encodeToken(k)] @@ <<>>

decodeTokenOf(nextToken) ==
    IF nextToken \in DOMAIN DecodedTokens THEN DecodedTokens[nextToken]
    ELSE decodeToken(nextToken)

encodeTokenOf(key) ==
    IF key \in DOMAIN EncodedKeys THEN EncodedKeys[key] ELSE encodeToken(key)

\* errors of docClient.send(QueryCommand)
QueryErrors ==
    {[name |-> "ResourceNotFoundException",
      message |-> "Requested resource not found"],
     [name |-> "ValidationException",
      message |-> "The table does not have the specified index: email-timestamp-index"],
     [name |-> "ProvisionedThroughputExceededException",
      message |-> "The level of configured provisioned throughput for the table was exceeded."],
     [name |-> "InternalServerError",
      message |-> "Internal server error"]}

\* the Error the catch block of queryHistoryByEmail / queryRecentHistory throws
QueryFailure(error) ==
    IF error.name = "ResourceNotFoundException"
    THEN HISTORY_ERROR_MESSAGES.TABLE_NOT_FOUND
    ELSE IF error.name = "ValidationException" /\ includes(error.message, "index")
    THEN HISTORY_ERROR_MESSAGES.INDEX_NOT_AVAILABLE
    ELSE IF error.name = "ProvisionedThroughputExceededException"
    THEN HISTORY_ERROR_MESSAGES.HIGH_LOAD
    ELSE HISTORY_ERROR_MESSAGES.QUERY_FAILED \o ": " \o error.message

\* params.ExclusiveStartKey, built before the QueryCommand is sent
ExclusiveStartKeyOf(nextToken) ==
    IF nextToken # "" THEN decodeTokenOf(nextToken) ELSE NoJson

\* queryHistoryByEmail / queryRecentHistory once the QueryCommand has
\* answered: { items, nextToken } ("" for null)
queryHistory(tbl, validated, ExclusiveStartKey, lekAtEnd) ==
    LET byEmail == validated.email # ""
        result == Query(tbl,
                        IF byEmail THEN "email" ELSE "recordType",
                        IF byEmail THEN validated.email ELSE "SEARCH",
                        validated.limit,
                        validated.nextToken # "",
                        ExclusiveStartKey,
                        lekAtEnd)
    IN  IF result.ok
        THEN [ok |-> TRUE, message |-> "", items |-> result.Items,
              nextToken |-> IF result.LastEvaluatedKey # NoKey
                            THEN encodeTokenOf(result.LastEvaluatedKey) ELSE ""]
        ELSE [ok |-> FALSE, message |-> QueryFailure(result.error), items |-> <<>>,
              nextToken |-> ""]

\* a variant of the filter that lets every item through
filterByCryptocurrency_all(items, cryptocurrency) == items

filterByCryptocurrency(items, cryptocurrency) ==
    IF cryptocurrency = "" THEN items
    ELSE LET matches(item) ==
                 /\ "cryptocurrency" \in DOMAIN item
                 /\ item.cryptocurrency # ""
                 /\ toLowerCase(item.cryptocurrency) = toLowerCase(cryptocurrency)
         IN  SelectSeq(items, matches)

sanitizeItem(item) ==
    [id |-> IF "id" \in DOMAIN item /\ item.id # "" THEN item.id ELSE DEFAULTS.ITEM_ID,
     cryptocurrency |-> IF "cryptocurrency" \in DOMAIN item /\ item.cryptocurrency # ""
                        THEN item.cryptocurrency ELSE DEFAULTS.ITEM_CRYPTOCURRENCY,
     price |-> IF "price" \in DOMAIN item THEN item.price ELSE DEFAULTS.ITEM_PRICE,
     currency |-> IF "currency" \in DOMAIN item /\ item.currency # ""
                  THEN item.currency ELSE DEFAULTS.ITEM_CURRENCY,
     change24h |-> IF "change24h" \in DOMAIN item THEN item.change24h
                   ELSE DEFAULTS.ITEM_CHANGE_24H,
     marketCap |-> IF "marketCap" \in DOMAIN item THEN item.marketCap
                   ELSE DEFAULTS.ITEM_MARKET_CAP,
     email |-> IF "email" \in DOMAIN item /\ item.email # "" THEN item.email
               ELSE DEFAULTS.ITEM_EMAIL,
     timestamp |-> item.timestamp]

sanitizeItems(items) == [i \in 1..Len(items) |-> sanitizeItem(items[i])]

\* mapErrorToStatusCode of the history handler
mapErrorToStatusCode_history(message) ==
    IF \/ includes(message, "Database")
       \/ includes(message, "not found")
       \/ includes(message, "not available")
       \/ includes(message, "high load")
    THEN HISTORY_STATUS_CODES.SERVICE_UNAVAILABLE
    ELSE HISTORY_STATUS_CODES.SERVER_ERROR

(***************************************************************************)
(* getSearchHistory handler.                                               *)
(***************************************************************************)
\* a variant that hands the token on only with a full page of records
HistorySuccessResponse_fullPage(validated, result, requestId, duration) ==
    LET sanitizedItems ==
            sanitizeItems(filterByCryptocurrency(result.items, validated.cryptocurrency))
        token == IF Len(sanitizedItems) = validated.limit THEN result.nextToken ELSE ""
    IN  [statusCode |-> HISTORY_STATUS_CODES.SUCCESS,
         body |-> [success |-> TRUE,
                   count |-> Len(sanitizedItems),
                   limit |-> validated.limit,
                   email |-> validated.email,
                   cryptocurrency |-> validated.cryptocurrency,
                   data |-> sanitizedItems,
                   nextToken |-> token,
                   hasMore |-> token # "",
                   requestId |-> requestId, duration |-> duration]]

HistorySuccessResponse(validated, result, requestId, duration) ==
    LET sanitizedItems ==
            sanitizeItems(filterByCryptocurrency(result.items, validated.cryptocurrency))
    IN  [statusCode |-> HISTORY_STATUS_CODES.SUCCESS,
         body |-> [success |-> TRUE,
                   count |-> Len(sanitizedItems),
                   limit |-> validated.limit,
                   email |-> validated.email,
                   cryptocurrency |-> validated.cryptocurrency,
                   data |-> sanitizedItems,
                   nextToken |-> result.nextToken,
                   hasMore |-> result.nextToken # "",
                   requestId |-> requestId, duration |-> duration]]

\* the outer catch of the history handler: the message goes out as it is
HistoryErrorResponse(message, requestId, duration) ==
    [statusCode |-> mapErrorToStatusCode_history(message),
     body |-> [success |-> FALSE, error |-> message,
               requestId |-> requestId, duration |-> duration]]

NoQuery == [limit |-> "", email |-> "", cryptocurrency |-> "", nextToken |-> ""]

QueryStrings ==
    {[limit |-> l, email |-> e, cryptocurrency |-> c, nextToken |-> t] :
        l \in {"", "1", "2", " 3x"}, e \in {"", "A@b.co "},
        c \in {"", "Bitcoin"}, t \in {""} \cup CursorTokens \cup TamperedTokens}
    \cup {[NoQuery EXCEPT !.limit = l] : l \in {"0", "abc", "501", "-1"}}
    \cup {[NoQuery EXCEPT !.email = "a@b"], [NoQuery EXCEPT !.email = "a b@c.de"],
          [NoQuery EXCEPT !.cryptocurrency = "btc!"],
          [NoQuery EXCEPT !.cryptocurrency = " "]}

HistoryEvents ==
    {[httpMethod |-> "GET", requestId |-> "rq-h", queryStringParameters |-> q] :
        q \in QueryStrings}
    \cup {[httpMethod |-> "GET", requestId |-> "", queryStringParameters |-> NoQuery],
          [httpMethod |-> "OPTIONS", requestId |-> "rq-o", queryStringParameters |-> NoQuery]}

\* validateQueryParams, tabulated for the query strings above
ValidatedQueries ==
    [q \in QueryStrings \cup {NoQuery} |-> validateQueryParams(q)] @@ <<>>

validateQueryParamsOf(queryParams) ==
    IF queryParams \in DOMAIN ValidatedQueries THEN ValidatedQueries[queryParams]
    ELSE validateQueryParams(queryParams)

\* history handler, from its entry to the await of the QueryCommand
HistInvoke(r, ev) ==
    /\ pc[r] = "idle"
    /\ event' = [event EXCEPT ![r] = ev]
    /\ UNCHANGED <<now, table, outbox, faults>>
    /\ LET requestId == IF ev.requestId = "" THEN "unknown" ELSE ev.requestId
           v == validateQueryParamsOf(ev.queryStringParameters)
           loc == [local[r] EXCEPT !.startTime = now, !.requestId = requestId]
       IN  IF ev.httpMethod = "OPTIONS"
           THEN Finish(r, OptionsResponse, local[r], trace[r])
           ELSE IF ~v.ok
           THEN Finish(r, BadRequestResponse(v.error, requestId), loc, trace[r])
           ELSE Goto(r, "histQuery",
                     [loc EXCEPT !.validated = v.validated,
                                 !.ExclusiveStartKey =
                                     ExclusiveStartKeyOf(v.validated.nextToken)],
                     [trace[r] EXCEPT !.queries = @ + 1])

\* the QueryCommand completes: err is the error the service answers with
\* (name "" for none)
HistQuery(r, err, lekAtEnd) ==
    /\ pc[r] = "histQuery"
    /\ Inject(err.name # "")
    /\ UNCHANGED <<now, table, outbox, event>>
    /\ LET result == queryHistory(table, local[r].validated,
                                  local[r].ExclusiveStartKey, lekAtEnd)
           duration == now - local[r].startTime
       IN  IF err.name # ""
           THEN Finish(r, HistoryErrorResponse(QueryFailure(err), local[r].requestId, duration),
                       local[r], [trace[r] EXCEPT !.queryError = err])
           ELSE IF ~result.ok
           THEN Finish(r, HistoryErrorResponse(result.message, local[r].requestId, duration),
                       local[r], [trace[r] EXCEPT !.queryError = StartKeyInvalid])
           ELSE Finish(r,
                       HistorySuccessResponse(local[r].validated, result,
                                              local[r].requestId, duration),
                       local[r], trace[r])

\* time passes while a QueryCommand is in flight
TickInQuery ==
    /\ \E r \in Reqs : pc[r] = "histQuery"
    /\ Tick

(***************************************************************************)
(* SpecHist: history requests against a table of records that fetch        *)
(* requests stored.  Request 1 is any request; request r + 1 is the        *)
(* client of request r asking for the next page: the same parameters with  *)
(* the nextToken of r's response.                                          *)
(***************************************************************************)
HistoryTables ==
    (SUBSET HistoryPool)
        \cup {HistoryPool \cup {CacheItem("bitcoin", EarlierPriceData, 120000)}}

NoError == [name |-> "", message |-> ""]

\* the client of request r - 1 asks for the next page
NextPage(r) ==
    /\ r - 1 \in Reqs
    /\ pc[r - 1] = "done"
    /\ response[r - 1].statusCode = 200
    /\ event[r - 1].httpMethod = "GET"
    /\ response[r - 1].body.nextToken # ""
    /\ HistInvoke(r, [event[r - 1] EXCEPT
                         !.queryStringParameters.nextToken = response[r - 1].body.nextToken])

InitHist ==
    /\ now = 0
    /\ table \in HistoryTables
    /\ outbox = {}
    /\ pc = [r \in Reqs |-> "idle"]
    /\ event = [r \in Reqs |-> NoEvent]
    /\ local = [r \in Reqs |-> InitLocal]
    /\ response = [r \in Reqs |-> NoResponse]
    /\ trace = [r \in Reqs |-> InitTrace]
    /\ faults = 0

NextHist ==
    \/ pc[1] = "idle" /\ \E ev \in HistoryEvents : HistInvoke(1, ev)
    \/ \E r \in Reqs : NextPage(r)
    \/ \E r \in Reqs, err \in QueryErrors \cup {NoError}, lekAtEnd \in BOOLEAN :
           HistQuery(r, err, lekAtEnd)
    \/ TickInQuery

SpecHist == InitHist /\ [][NextHist]_vars

(***************************************************************************)
(* Vocabulary of the properties.                                           *)
(***************************************************************************)
Done(r) == pc[r] = "done"
Status(r) == response[r].statusCode
IsFetchRequest(r) == event[r].httpMethod = "POST"
Stored(r) == Status(r) \in {200, 207}
\* the last https.get of r failed (and had the loop retry or give up)
FetchFailed(r) == local[r].lastError # ""
\* the quote part of a response's data
QuoteOf(data) ==
    [cryptocurrency |-> data.cryptocurrency, price |-> data.price,
     currency |-> data.currency, change24h |-> data.change24h,
     marketCap |-> data.marketCap]
\* the time r's response was returned
EndTime(r) == local[r].startTime + response[r].body.duration

\* the failure classes of the design, by what the upstream call ended with
FailureClass(res) ==
    IF res.type = "timeout" \/ (res.type = "error" /\ res.code = "ETIMEDOUT")
    THEN "timeout"
    ELSE IF res.type = "error" THEN "network-unreachable"
    ELSE IF res.statusCode = 429 THEN "rate-limit"
    ELSE IF res.statusCode >= 500 THEN "upstream-5xx"
    ELSE IF res.statusCode = 404 THEN "not-found"
    ELSE IF res.statusCode # 200 THEN "other-status"
    ELSE IF res.body.raw = "json" /\ ~res.body.hasAsset THEN "asset-missing"
    ELSE "malformed-payload"

RetryableClasses == {"timeout", "rate-limit", "network-unreachable", "upstream-5xx"}

(***************************************************************************)
(* C1                                                                      *)
(***************************************************************************)
\* C1 (as amended): a fetch whose cache read succeeds and finds an entry of
\* the asset written less than 60 s ago makes no upstream call, and the quote
\* it goes on with and returns is the cached one.
C1_FreshEntryIsServed ==
    \A r \in Reqs :
        (trace[r].cacheRead = "found" /\ trace[r].cacheAge < 60000)
            => /\ trace[r].upstreamCalls = 0
               /\ local[r].priceData = trace[r].cacheSeen
               /\ (Done(r) /\ Stored(r))
                      => QuoteOf(response[r].body.data) = trace[r].cacheSeen

\* a second invocation is answered from the entry the first one wrote
C1_Witness ==
    \E r \in Reqs :
        /\ Done(r) /\ Status(r) = 200
        /\ trace[r].cacheRead = "found" /\ trace[r].cacheAge < 60000
        /\ trace[r].prior # {}
        /\ \E q \in trace[r].prior : trace[q].upstreamCalls = 1

\* C1 (as stated): a valid fetch that begins within 60 s of the end of a
\* prior successful fetch of the same asset makes no upstream call.
C1_WithinWindowOfPriorFetch ==
    \A r \in Reqs : \A q \in trace[r].prior :
        (/\ local[r].cryptocurrency # ""
         /\ local[r].cryptocurrency = local[q].cryptocurrency
         /\ local[r].startTime - EndTime(q) < 60000)
            => trace[r].upstreamCalls = 0

(***************************************************************************)
(* C2                                                                      *)
(***************************************************************************)
\* C2: a failed upstream call is retried (unless it was the third) if and
\* only if its failure is a timeout, a rate limit, network-unreachable or an
\* upstream 5xx; any other failure ends the fetch at once.
C2_RetriedIffTransient ==
    \A r \in Reqs :
        FetchFailed(r) =>
            LET class == FailureClass(trace[r].lastResult)
            IN  /\ (class \in RetryableClasses /\ trace[r].upstreamCalls < 3)
                       => pc[r] \in {"backoff", "fetch"}
                /\ class \notin RetryableClasses => Done(r)

(***************************************************************************)
(* C3                                                                      *)
(***************************************************************************)
\* C3: when the fetch fails, the response status is 404 for an upstream
\* not-found, 429 for an upstream rate limit and 503 for an unavailable
\* upstream (timeout, network, 5xx).
C3_StatusReflectsFailureClass ==
    \A r \in Reqs :
        (Done(r) /\ FetchFailed(r)) =>
            LET class == FailureClass(trace[r].lastResult)
            IN  /\ class = "not-found" => Status(r) = 404
                /\ class = "rate-limit" => Status(r) = 429
                /\ class \in {"timeout", "network-unreachable", "upstream-5xx"}
                       => Status(r) = 503

(***************************************************************************)
(* C4                                                                      *)
(***************************************************************************)
\* C4: an append whose write is rejected because its id is already taken is
\* retried with a new id, so the request still ends with a stored record.
C4_CollisionRetriedWithNewId ==
    \A r \in Reqs :
        (Done(r) /\ trace[r].lastPutError = "ConditionalCheckFailedException")
            => Stored(r) /\ trace[r].putOk = 1

(***************************************************************************)
(* C5                                                                      *)
(***************************************************************************)
\* C5: when fetch and store succeeded and the notification failed, the
\* response is 207 with success, a warning and the stored record's id; the
\* record is in the table and in both history orderings; exactly one write
\* succeeded and exactly one e-mail was attempted (nothing was redone).
C5_NotifyFailureKeepsRecord ==
    \A r \in Reqs :
        (Done(r) /\ trace[r].sesFailed) =>
            /\ Status(r) = 207
            /\ response[r].body.success
            /\ "warning" \in DOMAIN response[r].body
            /\ response[r].body.data.id = local[r].storedData.id
            /\ local[r].storedData \in table
            /\ local[r].storedData \in RecentHistoryItems(table)
            /\ local[r].storedData \in HistoryByEmailItems(table, local[r].email)
            /\ trace[r].putOk = 1
            /\ trace[r].sesCalls = 1
            /\ \A m \in outbox : m.req # r

\* a notification failed while another invocation has stored its own record
C5_Witness ==
    \E r \in Reqs, q \in Reqs :
        /\ r # q
        /\ Done(r) /\ trace[r].sesFailed /\ Status(r) = 207
        /\ Done(q) /\ Status(q) = 200
        /\ Cardinality(RecentHistoryItems(table)) = 2

(***************************************************************************)
(* C6                                                                      *)
(***************************************************************************)
\* C6: the delay before re-attempt k+1 is 1000ms * 2^(k-1), so the delays of
\* one fetch are 1000 then 2000; and a fetch whose first two upstream calls
\* were answered 503 and whose third was answered with a valid quote has
\* succeeded with that quote after delays of exactly 1000 and 2000.
C6_BackoffSchedule ==
    \A r \in Reqs :
        /\ trace[r].delays \in {<<>>, <<1000>>, <<1000, 2000>>}
        /\ pc[r] = "backoff" => local[r].delay = trace[r].delays[Len(trace[r].delays)]
        /\ (/\ trace[r].upstreamCalls = 3
            /\ trace[r].only503
            /\ ~FetchFailed(r))
               => /\ trace[r].delays = <<1000, 2000>>
                  /\ local[r].priceData =
                        fetchCryptoPrice(local[r].cryptocurrency,
                                         trace[r].lastResult).priceData
                  /\ local[r].priceData # NoPriceData

\* 503, 503, then a quote: the third attempt succeeded
C6_Witness ==
    \E r \in Reqs :
        /\ trace[r].upstreamCalls = 3 /\ trace[r].only503 /\ ~FetchFailed(r)
        /\ Done(r) /\ Status(r) = 200
        /\ trace[r].delays = <<1000, 2000>>

(***************************************************************************)
(* C7                                                                      *)
(***************************************************************************)
\* C7: once the upstream has answered HTTP 404 the fetch has failed: the
\* request is over without a stored record, no backoff followed the answer,
\* and when the 404 was the first answer exactly one upstream call was made
\* and no delay at all.
C7_NotFoundFailsAtOnce ==
    \A r \in Reqs :
        (trace[r].lastResult.type = "response" /\ trace[r].lastResult.statusCode = 404)
            => /\ Done(r) /\ ~Stored(r)
               /\ trace[r].putCalls = 0
               /\ Len(trace[r].delays) = trace[r].upstreamCalls - 1
               /\ local[r].attempt = trace[r].upstreamCalls
               /\ local[r].attempt = 1
                      => trace[r].upstreamCalls = 1 /\ trace[r].delays = <<>>

\* the first upstream answer was a 404
C7_Witness ==
    \E r \in Reqs :
        /\ Done(r)
        /\ trace[r].lastResult.type = "response" /\ trace[r].lastResult.statusCode = 404
        /\ trace[r].upstreamCalls = 1 /\ trace[r].delays = <<>>

(***************************************************************************)
(* C8                                                                      *)
(***************************************************************************)
\* C8: a request makes at most 3 upstream calls; a backoff is running only
\* after a retryable failure of the first or second call; every delay is
\* followed by a re-attempt, so once the fetch is over the delays number one
\* less than the calls: none followed the final call or a non-retryable
\* failure.
C8_AtMostThreeAttempts ==
    \A r \in Reqs :
        /\ trace[r].upstreamCalls <= 3
        /\ Len(trace[r].delays) <= 2
        /\ pc[r] = "backoff"
               => /\ trace[r].upstreamCalls < 3
                  /\ isRetryableError(local[r].lastError)
                  /\ Len(trace[r].delays) = trace[r].upstreamCalls
        /\ pc[r] = "fetch" => Len(trace[r].delays) = trace[r].upstreamCalls
        /\ (pc[r] \notin {"backoff", "fetch"} /\ trace[r].upstreamCalls >= 1)
               => Len(trace[r].delays) = trace[r].upstreamCalls - 1
        /\ trace[r].upstreamCalls = 0 => trace[r].delays = <<>>
        /\ trace[r].cacheRead = "none" => trace[r].upstreamCalls = 0

\* three upstream calls failed and the request is over, two delays in all
C8_Witness ==
    \E r \in Reqs :
        /\ Done(r) /\ FetchFailed(r)
        /\ trace[r].upstreamCalls = 3
        /\ trace[r].delays = <<1000, 2000>>
        /\ isRetryableError(local[r].lastError)

HistoryRecords(tbl) == {i \in tbl : "recordType" \in DOMAIN i}

\* C10: a fetch request that ended with 200 or 207 made exactly one write
\* that succeeded, and its record is in the table; one that ended with any
\* other status made none; no request ever has more than one; and the table
\* holds one record per successful write and no others.
C10_OneRecordPerSuccess ==
    /\ \A r \in Reqs :
        /\ trace[r].putOk <= 1
        /\ (Done(r) /\ IsFetchRequest(r) /\ Stored(r))
               => /\ trace[r].putOk = 1
                  /\ local[r].storedData \in HistoryRecords(table)
                  /\ response[r].body.data.id = local[r].storedData.id
        /\ (Done(r) /\ IsFetchRequest(r) /\ ~Stored(r)) => trace[r].putOk = 0
    /\ \A i \in HistoryRecords(table) :
           \/ \E r \in Reqs : trace[r].putOk = 1 /\ local[r].storedData = i
           \/ i \in UNION EarlierTables

\* one request stored its record after a throttled write, another failed
C10_Witness ==
    \E r \in Reqs, q \in Reqs :
        /\ Done(r) /\ Stored(r) /\ trace[r].putCalls = 2 /\ trace[r].putOk = 1
        /\ Done(q) /\ IsFetchRequest(q) /\ ~Stored(q) /\ trace[q].putCalls >= 1
        /\ Cardinality(HistoryRecords(table)) = 1

(***************************************************************************)
(* C11                                                                     *)
(***************************************************************************)
IsHistoryRequest(r) == event[r].httpMethod = "GET"
Answered(r) == Done(r) /\ IsHistoryRequest(r) /\ Status(r) = 200

\* q asks for the page after r's: the same parameters, r's nextToken
IsNextPageOf(q, r) ==
    /\ Answered(r) /\ response[r].body.nextToken # ""
    /\ IsHistoryRequest(q) /\ pc[q] # "idle"
    /\ event[q].queryStringParameters =
           [event[r].queryStringParameters EXCEPT !.nextToken = response[r].body.nextToken]

\* the single full scan of the ordering r queries
FullScan(r) ==
    SortDescending(IF local[r].validated.email # ""
                   THEN HistoryByEmailItems(table, local[r].validated.email)
                   ELSE RecentHistoryItems(table))

\* how many records of the full scan lie at or before the position r's
\* cursor names (0 without a cursor)
StartPosition(r) ==
    LET scan == FullScan(r)
        key == local[r].ExclusiveStartKey.props
        start == [id |-> key["id"].s, timestamp |-> parseIsoText(key["timestamp"].s).iso]
    IN  IF local[r].validated.nextToken = "" THEN 0
        ELSE Cardinality({i \in 1..Len(scan) : ~ReadBefore(start, scan[i])})

\* what the n records of the full scan that follow r's start position look
\* like in a response with r's filters
ScanSegment(r, n) ==
    LET scan == FullScan(r)
        a == StartPosition(r)
        b == IF a + n > Len(scan) THEN Len(scan) ELSE a + n
    IN  sanitizeItems(filterByCryptocurrency(SubSeq(scan, a + 1, b),
                                            local[r].validated.cryptocurrency))

\* C11: when a request is answered with a nextToken and the token is fed
\* back with the same filters, the two pages together are exactly the
\* stretch of the full scan that starts where the first page started: the
\* second page begins with the record after the last one the first page
\* read (no overlap, no skip).
C11_PagesTileTheScan ==
    \A r \in Reqs, q \in Reqs :
        (IsNextPageOf(q, r) /\ Answered(q))
            => /\ response[r].body.data = ScanSegment(r, local[r].validated.limit)
               /\ response[r].body.data \o response[q].body.data
                      = ScanSegment(r, 2 * local[r].validated.limit)
               /\ StartPosition(q) = StartPosition(r) + local[r].validated.limit

\* two pages of one record each, the first ending between two records of
\* one instant
C11_Witness ==
    \E r \in Reqs, q \in Reqs :
        /\ IsNextPageOf(q, r) /\ Answered(q)
        /\ Len(response[r].body.data) = 1 /\ Len(response[q].body.data) = 1
        /\ response[r].body.data[1].timestamp = response[q].body.data[1].timestamp
        /\ response[q].body.nextToken # ""

(***************************************************************************)
(* C12                                                                     *)
(***************************************************************************)
\* the partition r's parameters select: the index's partition attribute
\* and its value
QueriedPartition(r) ==
    LET q == event[r].queryStringParameters
    IN  IF q.email # "" THEN <<"email", trim(toLowerCase(q.email))>>
        ELSE <<"recordType", "SEARCH">>

\* r's nextToken decodes to a key of the index r queries
TokenIsCursor(r) ==
    IsStartKey(decodeTokenOf(event[r].queryStringParameters.nextToken),
               QueriedPartition(r)[1], QueriedPartition(r)[2])

\* C12: a history request whose nextToken does not decode to a key of the
\* queried index is answered 400, and no QueryCommand was sent for it.
C12_TamperedTokenRejected ==
    \A r \in Reqs :
        (/\ Done(r) /\ IsHistoryRequest(r)
         /\ event[r].queryStringParameters.nextToken # ""
         /\ ~TokenIsCursor(r))
            => Status(r) = 400 /\ trace[r].queries = 0

\* what the code does guarantee: a token whose text is not JSON at all is
\* answered 400 before any query
C12_UnparsableTokenRejected ==
    \A r \in Reqs :
        (/\ Done(r) /\ IsHistoryRequest(r)
         /\ event[r].queryStringParameters.nextToken # ""
         /\ ~decodeTokenOf(event[r].queryStringParameters.nextToken).ok)
            => Status(r) = 400 /\ trace[r].queries = 0

\* a token that is JSON but no key reaches the service, which rejects it
C12_TamperedTokenQueried ==
    \E r \in Reqs :
        /\ Done(r) /\ event[r].queryStringParameters.nextToken = "e30="
        /\ trace[r].queries = 1 /\ Status(r) = 503
        /\ response[r].body.error =
               "Database query failed: The provided starting key is invalid"

(***************************************************************************)
(* C13                                                                     *)
(***************************************************************************)
\* the asset id of r's body, lowercased and trimmed
AssetIdOf(r) == trim(toLowerCase(event[r].body.cryptocurrency))

\* r's body carries an asset id that breaks the format rule
MalformedAsset(r) ==
    /\ IsFetchRequest(r) /\ event[r].body.json
    /\ event[r].body.cryptocurrency # ""
    /\ (~CRYPTO_PATTERN_test(AssetIdOf(r)) \/ Len(AssetIdOf(r)) > CRYPTO_MAX_LENGTH)

\* r has caused no input or output at all
NoSideEffect(r) ==
    /\ trace[r].cacheRead = "none" /\ trace[r].cacheWrite = "none"
    /\ trace[r].upstreamCalls = 0 /\ trace[r].putCalls = 0 /\ trace[r].sesCalls = 0

\* C13: a fetch request whose asset id, lowercased and trimmed, does not
\* match [a-z0-9-]+ or is longer than 50 characters is answered 400, and at
\* no point has it read the cache, called upstream, written history or
\* sent an email.
C13_MalformedAssetRejected ==
    \A r \in Reqs :
        (pc[r] # "idle" /\ MalformedAsset(r))
            => Done(r) /\ Status(r) = 400 /\ NoSideEffect(r)

\* an id of the pattern's characters but 51 long has been rejected
C13_Witness ==
    \E r \in Reqs :
        /\ Done(r) /\ MalformedAsset(r) /\ CRYPTO_PATTERN_test(AssetIdOf(r))
        /\ Len(AssetIdOf(r)) = CRYPTO_MAX_LENGTH + 1
        /\ Status(r) = 400 /\ NoSideEffect(r)

(***************************************************************************)
(* C14                                                                     *)
(***************************************************************************)
\* r is a fetch request with bad user input: a body that is not JSON, a
\* missing field, or a field validateInput refuses
BadUserInput(r) ==
    /\ IsFetchRequest(r)
    /\ \/ ~event[r].body.json
       \/ event[r].body.cryptocurrency = "" \/ event[r].body.email = ""
       \/ ~validateInput(event[r].body.cryptocurrency, event[r].body.email).ok

\* the messages that name what is wrong with the input
UserFacingMessages ==
    {ERROR_MESSAGES.INVALID_JSON, ERROR_MESSAGES.MISSING_FIELDS,
     ERROR_MESSAGES.CRYPTO_REQUIRED, ERROR_MESSAGES.INVALID_CRYPTO_FORMAT,
     ERROR_MESSAGES.UNSUPPORTED_CRYPTO, ERROR_MESSAGES.EMAIL_REQUIRED,
     ERROR_MESSAGES.INVALID_EMAIL_FORMAT}

\* C14: a fetch request rejected for bad user input (missing fields,
\* malformed or unsupported asset, malformed email, body not valid JSON)
\* is answered 400 with a message that names the fault.
C14_BadInputAnswered400 ==
    \A r \in Reqs :
        (Done(r) /\ BadUserInput(r))
            => Status(r) = 400 /\ response[r].body.error \in UserFacingMessages

\* what the code does guarantee: bad input in a body that is JSON is
\* answered 400 with the message of the fault
C14_BadFieldsAnswered400 ==
    \A r \in Reqs :
        (Done(r) /\ BadUserInput(r) /\ event[r].body.json)
            => Status(r) = 400 /\ response[r].body.error \in UserFacingMessages

\* a body that is not JSON has been answered 500 with the generic message
C14_InvalidJsonAnswered500 ==
    \E r \in Reqs :
        /\ Done(r) /\ IsFetchRequest(r) /\ ~event[r].body.json
        /\ Status(r) = 500 /\ response[r].body.error = "Internal server error"

(***************************************************************************)
(* C15                                                                     *)
(***************************************************************************)
\* the response body of r has the two tracing fields
Traceable(r) == {"requestId", "duration"} \subseteq DOMAIN response[r].body

\* C15: every response to a request (the CORS pre-flight aside) carries a
\* requestId and a duration, whatever the outcome.
C15_EveryResponseTraceable ==
    \A r \in Reqs :
        (Done(r) /\ event[r].httpMethod # "OPTIONS") => Traceable(r)

\* what the code does guarantee: every response carries the requestId,
\* and every response other than a 400 carries the duration too
C15_TraceableUnlessBadRequest ==
    \A r \in Reqs :
        (Done(r) /\ event[r].httpMethod # "OPTIONS")
            => /\ "requestId" \in DOMAIN response[r].body
               /\ Status(r) # 400 => Traceable(r)

\* a 400 has been returned with a requestId and no duration
C15_BadRequestWithoutDuration ==
    \E r \in Reqs :
        /\ Done(r) /\ Status(r) = 400
        /\ "requestId" \in DOMAIN response[r].body
        /\ "duration" \notin DOMAIN response[r].body

(***************************************************************************)
(* C16                                                                     *)
(***************************************************************************)
GenericMessage == "Internal server error"

\* the raw messages of the errors the storage service and the socket raise
\* (one of them reads like the generic message and tells nothing apart)
RawErrorMessages ==
    ({e.message : e \in StoreErrors \cup QueryErrors}
        \cup {StartKeyInvalid.message, "socket hang up"})
    \ {GenericMessage}

\* the error text of r's response contains a raw message
ExposesRawMessage(r) ==
    /\ "error" \in DOMAIN response[r].body
    /\ \E m \in RawErrorMessages : includes(response[r].body.error, m)

\* C16: no response carries the raw message of an internal error; such an
\* error reaches the caller as a generic message only.
C16_NoRawMessageExposed ==
    \A r \in Reqs : Done(r) => ~ExposesRawMessage(r)

\* what the code does guarantee: a fetch response of status 500 carries
\* the generic message
C16_Status500IsGeneric ==
    \A r \in Reqs :
        (Done(r) /\ IsFetchRequest(r) /\ Status(r) = 500)
            => response[r].body.error = GenericMessage

\* a history write rejected three times for throughput has put the storage
\* service's own message into a 503
C16_RawStoreMessageExposed ==
    \E r \in Reqs :
        /\ Done(r) /\ Status(r) = 503 /\ trace[r].putCalls = 3
        /\ response[r].body.error =
               "Failed to store search history: The level of configured provisioned throughput for the table was exceeded."

(***************************************************************************)
(* C17                                                                     *)
(***************************************************************************)
\* r's QueryCommand failed with the error named / of the kind
QueryFailedWith(r, name) ==
    Done(r) /\ IsHistoryRequest(r) /\ trace[r].queryError.name = name

MissingIndex(r) ==
    QueryFailedWith(r, "ValidationException")
        /\ includes(trace[r].queryError.message, "index")

\* r's QueryCommand failed with an error of none of the three known kinds
GenericQueryFailure(r) ==
    /\ Done(r) /\ IsHistoryRequest(r) /\ trace[r].queryError.name # ""
    /\ ~QueryFailedWith(r, "ResourceNotFoundException")
    /\ ~QueryFailedWith(r, "ProvisionedThroughputExceededException")
    /\ ~MissingIndex(r)

\* the part of the claim that holds: a missing table, a missing index and
\* a throughput rejection are each answered 503 with a message of their own
C17_ClassifiedFailures ==
    \A r \in Reqs :
        /\ QueryFailedWith(r, "ResourceNotFoundException")
               => /\ Status(r) = 503
                  /\ response[r].body.error = HISTORY_ERROR_MESSAGES.TABLE_NOT_FOUND
        /\ MissingIndex(r)
               => /\ Status(r) = 503
                  /\ response[r].body.error = HISTORY_ERROR_MESSAGES.INDEX_NOT_AVAILABLE
        /\ QueryFailedWith(r, "ProvisionedThroughputExceededException")
               => /\ Status(r) = 503
                  /\ response[r].body.error = HISTORY_ERROR_MESSAGES.HIGH_LOAD

\* C17: a history query failure that is neither a missing table or index
\* nor a throughput rejection is answered 500, which tells it apart from
\* the 503 of the classified failures.
C17_GenericFailureIs500 ==
    \A r \in Reqs : GenericQueryFailure(r) => Status(r) = 500

\* a failure of no known kind has been answered 503
C17_GenericFailureAnswered503 ==
    \E r \in Reqs :
        /\ GenericQueryFailure(r) /\ trace[r].queryError.name = "InternalServerError"
        /\ Status(r) = 503
        /\ response[r].body.error = "Database query failed: Internal server error"

(***************************************************************************)
(* C18                                                                     *)
(***************************************************************************)
\* the status a request that went upstream ends with, from what its last
\* https.get, its history writes and its e-mail ended with: nothing of
\* the cache enters
StatusWithoutCache(r) ==
    LET f == fetchCryptoPrice(local[r].cryptocurrency, trace[r].lastResult)
    IN  IF ~f.ok THEN mapErrorToStatusCode(FetchFailure(f.message))
        ELSE IF trace[r].putOk = 0
        THEN (IF trace[r].lastPutError = "ResourceNotFoundException" THEN 404 ELSE 503)
        ELSE IF trace[r].sesFailed THEN 207 ELSE 200

\* C18: a storage error on the cache read is treated as a miss (the
\* request goes upstream), one on the cache write-back is swallowed (the
\* request goes on to the history write), and the status and the quote of
\* the response are those the upstream call, the history write and the
\* e-mail alone determine, as with an empty cache and a write-back that
\* succeeded.
C18_CacheErrorsChangeNothing ==
    \A r \in Reqs :
        /\ trace[r].cacheRead = "error"
               => pc[r] = "fetch" \/ trace[r].upstreamCalls >= 1
        /\ trace[r].cacheWrite = "failed"
               => /\ pc[r] \in {"store", "storeBackoff", "email", "done"}
                  /\ trace[r].uuidCalls >= 1
        /\ (Done(r) /\ trace[r].upstreamCalls >= 1)
               => /\ Status(r) = StatusWithoutCache(r)
                  /\ Stored(r) =>
                         QuoteOf(response[r].body.data) =
                             fetchCryptoPrice(local[r].cryptocurrency,
                                              trace[r].lastResult).priceData

\* both cache operations failed, although an entry was there to read, and
\* the request succeeded with the upstream quote
C18_Witness ==
    \E r \in Reqs :
        /\ Done(r) /\ trace[r].cacheRead = "error" /\ trace[r].cacheWrite = "failed"
        /\ HasItem(table, cacheKey(local[r].cryptocurrency))
        /\ Status(r) = 200 /\ response[r].body.data.price = 200

(***************************************************************************)
(* C19                                                                     *)
(***************************************************************************)
\* where in the full scan r's query stopped reading
EndPosition(r) ==
    LET last == StartPosition(r) + local[r].validated.limit
    IN  IF last > Len(FullScan(r)) THEN Len(FullScan(r)) ELSE last

\* records that match r's filters lie beyond the page r was answered with
MoreData(r) ==
    filterByCryptocurrency(SubSeq(FullScan(r), EndPosition(r) + 1, Len(FullScan(r))),
                           local[r].validated.cryptocurrency) # <<>>

HasToken(r) == response[r].body.nextToken # ""

\* C19 as stated: a history response has at most limit records, and it
\* carries a nextToken (hasMore = true) exactly when more data exists
\* beyond the page.
C19_TokenIffMoreData ==
    \A r \in Reqs :
        Answered(r) =>
            /\ Len(response[r].body.data) <= local[r].validated.limit
            /\ response[r].body.hasMore = HasToken(r)
            /\ HasToken(r) <=> MoreData(r)

\* C19, amended: a history response has at most limit records (count of
\* them), hasMore is true exactly when it carries a nextToken, and it
\* carries one whenever more data exists beyond the page, so that no
\* nextToken means the data is exhausted; a nextToken is there only when
\* the query read limit records, but more data need not exist then.
C19_NoTokenMeansExhausted ==
    \A r \in Reqs :
        Answered(r) =>
            /\ Len(response[r].body.data) <= local[r].validated.limit
            /\ response[r].body.count = Len(response[r].body.data)
            /\ response[r].body.hasMore = HasToken(r)
            /\ MoreData(r) => HasToken(r)
            /\ HasToken(r) => EndPosition(r) - StartPosition(r) = local[r].validated.limit

\* a page filtered down to fewer records than its limit, with a token
\* and more data beyond it
C19_Witness ==
    \E r \in Reqs :
        /\ Answered(r) /\ HasToken(r) /\ MoreData(r)
        /\ local[r].validated.cryptocurrency # ""
        /\ Len(response[r].body.data) < local[r].validated.limit

\* a token handed out with nothing left to read
C19_TokenAtTheEnd ==
    \E r \in Reqs :
        /\ Answered(r) /\ HasToken(r) /\ ~MoreData(r)
        /\ EndPosition(r) = Len(FullScan(r))

(***************************************************************************)
(* C20                                                                     *)
(***************************************************************************)
\* the cache read of r found a fresh entry
CacheHit(r) == trace[r].cacheRead = "found" /\ trace[r].cacheAge < CACHE_TTL

\* r holds a quote: the fresh entry it read, or what upstream answered
QuoteObtained(r) ==
    \/ CacheHit(r) /\ local[r].priceData = trace[r].cacheSeen
    \/ /\ trace[r].upstreamCalls >= 1
       /\ fetchCryptoPrice(local[r].cryptocurrency, trace[r].lastResult).ok
       /\ local[r].priceData =
              fetchCryptoPrice(local[r].cryptocurrency, trace[r].lastResult).priceData

\* C20: within one fetch request the steps come in the order cache check,
\* upstream fetch (after a miss only), cache write-back, history append,
\* notification: upstream is called only after the cache was read and
\* missed, the write-back only after upstream answered with a quote, the
\* append only once a quote is obtained (and after the write-back when the
\* quote came from upstream), and the notification only after that
\* request's append succeeded.
C20_StepsInOrder ==
    \A r \in Reqs :
        /\ (pc[r] \in {"fetch", "backoff"} \/ trace[r].upstreamCalls >= 1)
               => trace[r].cacheRead # "none" /\ ~CacheHit(r)
        /\ (pc[r] = "cacheSet" \/ trace[r].cacheWrite # "none")
               => /\ trace[r].upstreamCalls >= 1
                  /\ fetchCryptoPrice(local[r].cryptocurrency, trace[r].lastResult).ok
        /\ trace[r].uuidCalls >= 1
               => /\ QuoteObtained(r)
                  /\ CacheHit(r) \/ trace[r].cacheWrite # "none"
        /\ (pc[r] = "email" \/ trace[r].sesCalls >= 1)
               => /\ trace[r].putOk = 1
                  /\ local[r].storedData \in table
                  /\ QuoteOf(local[r].storedData) = local[r].priceData

\* a request that went through all five steps
C20_Witness ==
    \E r \in Reqs :
        /\ Done(r) /\ trace[r].cacheRead = "found" /\ ~CacheHit(r)
        /\ trace[r].upstreamCalls = 2 /\ trace[r].cacheWrite = "ok"
        /\ trace[r].putCalls = 1 /\ trace[r].sesCalls = 1 /\ Status(r) = 200

(***************************************************************************)
(* C21                                                                     *)
(***************************************************************************)
\* the last history write of r was refused because the table is missing
TableMissing(r) == trace[r].lastPutError = "ResourceNotFoundException"

\* C21: when a history write fails because the table does not exist, the
\* append fails at once and for good, on whichever attempt it happens: the
\* request ends there, with no backoff delay and no further write after
\* the refused one.
C21_MissingTableFailsAtOnce ==
    \A r \in Reqs :
        TableMissing(r) =>
            /\ Done(r) /\ trace[r].putOk = 0
            /\ Len(trace[r].storeDelays) = trace[r].putCalls - 1
            /\ trace[r].uuidCalls = trace[r].putCalls
            /\ response[r].body.error = ERROR_MESSAGES.TABLE_NOT_FOUND

\* the table was found missing on the second write, after one throttled
C21_Witness ==
    \E r \in Reqs :
        /\ TableMissing(r) /\ Done(r)
        /\ trace[r].putCalls = 2 /\ trace[r].storeDelays = <<1000>>

(***************************************************************************)
(* C22                                                                     *)
(***************************************************************************)
\* the limit parameter of r as the caller wrote it
LimitText(r) == event[r].queryStringParameters.limit

\* the text is the decimal numeral of a positive integer
IsPositiveInteger(text) ==
    Len(text) >= 1 /\ allCharsIn(text, DigitChars) /\ digitsValue(text) >= 1

RejectedUnqueried(r) == Status(r) = 400 /\ trace[r].queries = 0

\* C22: the history query limit is 100 when absent; a limit that is not a
\* positive integer is answered 400, and so is one above 500 (it is not
\* clamped); a rejected request makes no storage query.
C22_LimitRule ==
    \A r \in Reqs :
        (Done(r) /\ IsHistoryRequest(r)) =>
            /\ (LimitText(r) = "" /\ Status(r) = 200) => response[r].body.limit = 100
            /\ (LimitText(r) # "" /\ ~IsPositiveInteger(LimitText(r)))
                   => RejectedUnqueried(r)
            /\ (IsPositiveInteger(LimitText(r)) /\ digitsValue(LimitText(r)) > 500)
                   => RejectedUnqueried(r)

\* what the code does guarantee: the rule applied to what parseInt makes
\* of the text
C22_LimitRuleOfParseInt ==
    \A r \in Reqs :
        (Done(r) /\ IsHistoryRequest(r)) =>
            /\ (LimitText(r) = "" /\ Status(r) = 200) => response[r].body.limit = 100
            /\ (LimitText(r) # "" /\ (parseInt(LimitText(r)).isNaN
                                        \/ parseInt(LimitText(r)).value < 1))
                   => /\ RejectedUnqueried(r)
                      /\ response[r].body.error = HISTORY_ERROR_MESSAGES.INVALID_LIMIT
            /\ (LimitText(r) # "" /\ ~parseInt(LimitText(r)).isNaN
                                  /\ parseInt(LimitText(r)).value > 500)
                   => /\ RejectedUnqueried(r)
                      /\ response[r].body.error = HISTORY_ERROR_MESSAGES.LIMIT_EXCEEDED

\* a limit with trailing text has been taken for its leading digits
C22_TrailingTextAccepted ==
    \E r \in Reqs :
        /\ Done(r) /\ LimitText(r) = " 3x"
        /\ Status(r) = 200 /\ response[r].body.limit = 3 /\ trace[r].queries = 1

(***************************************************************************)
(* C23                                                                     *)
(***************************************************************************)
IsHistoryRecord(i) == "recordType" \in DOMAIN i

\* C23: a history record that is in the table stays in it as it is through
\* every step of the system (an append, a cache write-back, any other
\* step); it can leave only when its retention deadline has passed.
C23_RecordsAreKept ==
    [][\A i \in table :
           IsHistoryRecord(i) => (i \in table' \/ i.ttl <= now \div 1000)]_vars

\* a record written at time 0 is still there after a later request wrote
\* the cache and appended its own record
C23_Witness ==
    \E r \in Reqs, q \in Reqs :
        /\ Done(r) /\ Done(q) /\ IsFetchRequest(r) /\ IsFetchRequest(q)
        /\ Stored(r) /\ Stored(q)
        /\ local[r].storedData.timestamp = toISOString(0)
        /\ getTime(local[q].storedData.timestamp) > 0
        /\ trace[q].cacheWrite = "ok"
        /\ {local[r].storedData, local[q].storedData} \subseteq table

(***************************************************************************)
(* C24                                                                     *)
(***************************************************************************)
\* r ended because its upstream fetch failed; the message of the last
\* upstream error
FetchEndedInFailure(r) ==
    /\ Done(r) /\ IsFetchRequest(r) /\ trace[r].upstreamCalls >= 1
    /\ ~fetchCryptoPrice(local[r].cryptocurrency, trace[r].lastResult).ok

LastUpstreamMessage(r) ==
    fetchCryptoPrice(local[r].cryptocurrency, trace[r].lastResult).message

\* C24: when a fetch fails, the failure carries the last upstream error
\* and the number of upstream attempts that were made (3 after retryable
\* failures ran out, 1 when a failure that is not retried ended the fetch
\* at the first attempt).
C24_FailureCountsAttemptsMade ==
    \A r \in Reqs :
        FetchEndedInFailure(r) =>
            response[r].body.error =
                "Failed to fetch price after " \o ToString(trace[r].upstreamCalls)
                    \o " attempts: " \o LastUpstreamMessage(r)

\* what the code does guarantee: the failure carries the last upstream
\* error, and the count in it is the configured maximum
C24_FailureCountsTheMaximum ==
    \A r \in Reqs :
        FetchEndedInFailure(r) =>
            response[r].body.error =
                "Failed to fetch price after " \o ToString(API_CONFIG.MAX_RETRIES)
                    \o " attempts: " \o LastUpstreamMessage(r)

\* a fetch given up after one attempt reports three
C24_OneAttemptReportedAsThree ==
    \E r \in Reqs :
        /\ FetchEndedInFailure(r) /\ trace[r].upstreamCalls = 1
        /\ response[r].body.error =
               "Failed to fetch price after 3 attempts: Cryptocurrency not found."

(***************************************************************************)
(* C25                                                                     *)
(***************************************************************************)
\* the step is the completion of r's cache read, which found an entry
ReadsEntry(r) ==
    pc[r] = "cacheGet" /\ pc'[r] # "cacheGet" /\ trace'[r].cacheRead = "found"

\* the step is the completion of r's cache write-back, which succeeded
WritesEntry(r) ==
    pc[r] = "cacheSet" /\ pc'[r] # "cacheSet" /\ trace'[r].cacheWrite = "ok"

\* C25: the age of the entry against the 60 s window alone decides a cache
\* hit: an entry read at an age of 60 s or more, though still in the
\* table, is a miss and the request goes upstream, a younger one is a hit
\* and the request goes on to the append; and a successful write-back
\* leaves under the asset's key the one entry with the new quote and a
\* written-at time taken during the request.
C25_FreshnessAloneDecides ==
    [][\A r \in Reqs :
           /\ (ReadsEntry(r) /\ trace'[r].cacheAge >= CACHE_TTL)
                  => pc'[r] = "fetch" /\ trace'[r].upstreamCalls = 0
           /\ (ReadsEntry(r) /\ trace'[r].cacheAge < CACHE_TTL)
                  => pc'[r] = "store" /\ local'[r].priceData = trace'[r].cacheSeen
           /\ WritesEntry(r)
                  => \E entry \in table' :
                         /\ {i \in table' : i.id = cacheKey(local[r].cryptocurrency)}
                                = {entry}
                         /\ entry.priceData =
                                fetchCryptoPrice(local[r].cryptocurrency,
                                                 trace[r].lastResult).priceData
                         /\ getTime(entry.timestamp) >= local[r].startTime
                         /\ getTime(entry.timestamp) <= now
                         /\ entry.ttl = (getTime(entry.timestamp) \div 1000)
                                            + CACHE_EXPIRY_S]_vars

\* an entry 60 s old, still in the table, was passed over and replaced by
\* the quote upstream gave
C25_Witness ==
    \E r \in Reqs :
        /\ Done(r) /\ trace[r].cacheRead = "found"
        /\ trace[r].cacheAge = CACHE_TTL /\ trace[r].cacheAge < CACHE_EXPIRY_S * 1000
        /\ trace[r].upstreamCalls >= 1 /\ trace[r].cacheWrite = "ok"
        /\ Status(r) = 200
        /\ HasItem(table, cacheKey(local[r].cryptocurrency))
        /\ LET entry == GetItem(table, cacheKey(local[r].cryptocurrency))
           IN  /\ entry.priceData = local[r].priceData
               /\ entry.priceData # trace[r].cacheSeen
               /\ getTime(entry.timestamp) >= CACHE_TTL

(***************************************************************************)
(* C26                                                                     *)
(***************************************************************************)
\* the asset r filters by ("" for none)
AssetFilter(r) == local[r].validated.cryptocurrency

\* the ids of a sequence of records
IdsOf(records) == [i \in 1..Len(records) |-> records[i].id]

\* the ids of the records of the full scan after r's start position that
\* have the asset r filters by, in the order of the scan
MatchingIdsFrom(r) ==
    LET scan == FullScan(r)
        rest == SubSeq(scan, StartPosition(r) + 1, Len(scan))
        hasAsset(x) == x.cryptocurrency = AssetFilter(r)
    IN  IdsOf(SelectSeq(rest, hasAsset))

\* C26: with an asset filter, every record of a response has that asset
\* id; and when the nextToken of a response is followed and the page after
\* it carries none, the two pages together hold every record of the
\* ordering with that asset, each once (a single page without nextToken
\* holds them all).
C26_FilteredPagesAreComplete ==
    \A r \in Reqs :
        (Answered(r) /\ AssetFilter(r) # "") =>
            /\ \A i \in 1..Len(response[r].body.data) :
                   response[r].body.data[i].cryptocurrency = AssetFilter(r)
            /\ ~HasToken(r) => IdsOf(response[r].body.data) = MatchingIdsFrom(r)
            /\ \A q \in Reqs :
                   (IsNextPageOf(q, r) /\ Answered(q) /\ ~HasToken(q))
                       => IdsOf(response[r].body.data \o response[q].body.data)
                              = MatchingIdsFrom(r)

\* a first page with no record and a nextToken, the matching record on the
\* page after it, which ends the scan
C26_Witness ==
    \E r \in Reqs, q \in Reqs :
        /\ IsNextPageOf(q, r) /\ Answered(q) /\ AssetFilter(r) # ""
        /\ local[r].validated.nextToken = ""
        /\ response[r].body.data = <<>> /\ HasToken(r)
        /\ Len(response[q].body.data) >= 1 /\ ~HasToken(q)

(***************************************************************************)
(* C27                                                                     *)
(***************************************************************************)
\* r is a fetch request that succeeded
Succeeded(r) == Done(r) /\ IsFetchRequest(r) /\ Stored(r)

\* the cache entries of an asset in the table
CacheEntries(tbl, cryptoId) == {i \in tbl : i.id = cacheKey(cryptoId)}

\* C27: however the concurrent fetch requests interleave, those that
\* succeeded have each their own history record in the table, with
\* pairwise distinct ids and as written (none lost, none overwritten),
\* the table holds as many records as writes succeeded, and it never
\* holds more than one cache entry of an asset.
C27_ConcurrentSuccessesAllRecorded ==
    /\ \A r \in Reqs, q \in Reqs :
           (r # q /\ Succeeded(r) /\ Succeeded(q))
               => /\ local[r].storedData.id # local[q].storedData.id
                  /\ {local[r].storedData, local[q].storedData}
                         \subseteq HistoryRecords(table)
                  /\ QuoteOf(local[r].storedData) = QuoteOf(response[r].body.data)
                  /\ local[r].storedData.email = local[r].email
    /\ Cardinality(HistoryRecords(table))
           = Cardinality({r \in Reqs : trace[r].putOk = 1})
    /\ \A cryptoId \in SUPPORTED_CRYPTOS :
           Cardinality(CacheEntries(table, cryptoId)) <= 1

\* two requests for one asset that overlapped, both missed the cache, both
\* wrote it and both succeeded
C27_Witness ==
    \E r \in Reqs, q \in Reqs :
        /\ r # q /\ Succeeded(r) /\ Succeeded(q)
        /\ trace[r].prior = {} /\ trace[q].prior = {}
        /\ trace[r].cacheWrite = "ok" /\ trace[q].cacheWrite = "ok"
        /\ local[r].priceData # local[q].priceData
        /\ Cardinality(HistoryRecords(table)) = 2
        /\ Cardinality(CacheEntries(table, "bitcoin")) = 1

(***************************************************************************)
(* C28                                                                     *)
(***************************************************************************)
IsCacheKey(id) == \E cryptoId \in SUPPORTED_CRYPTOS : id = cacheKey(cryptoId)

\* the history queries a caller can make of the table: by recency and by
\* each recipient
AnyQuery ==
    {[limit |-> DYNAMODB_CONFIG.DEFAULT_LIMIT, email |-> e, cryptocurrency |-> "",
      nextToken |-> ""] : e \in {"", "a@b.co", "c@d.io", "e@f.org"}}

\* what a history query of the table returns
QueryItems(validated) == queryHistory(table, validated, NoJson, FALSE).items

\* C28: cache entries and history records never mix in the one table: a
\* history query, by recipient or by recency, returns history records only
\* and never an item under a cache key; what a cache read gets under a cache
\* key is a cache entry, never a history record; and the key a write-back
\* writes is a cache key while the key an append writes is none.
C28_KeyspacesApart ==
    /\ \A validated \in AnyQuery :
           \A n \in 1..Len(QueryItems(validated)) :
               /\ ~IsCacheKey(QueryItems(validated)[n].id)
               /\ QueryItems(validated)[n] \in HistoryRecords(table)
    /\ \A i \in table :
           IsCacheKey(i.id) => ~IsHistoryRecord(i) /\ "priceData" \in DOMAIN i
    /\ \A r \in Reqs :
           /\ pc[r] = "cacheSet" => IsCacheKey(local[r].item.id)
           /\ pc[r] \in {"store", "storeBackoff"}
                  => ~IsCacheKey(local[r].item.id) /\ IsHistoryRecord(local[r].item)
           /\ trace[r].cacheRead = "found" => trace[r].cacheSeen # NoPriceData

\* the request read a cache entry, wrote one and appended a record, and
\* the table then holds both kinds: queries return the two records, the
\* cache key holds the entry
C28_Witness ==
    \E r \in Reqs :
        /\ Done(r) /\ IsFetchRequest(r) /\ Status(r) = 200
        /\ trace[r].cacheRead = "found" /\ trace[r].cacheWrite = "ok"
        /\ Cardinality(CacheEntries(table, "bitcoin")) = 1
        /\ Cardinality(HistoryRecords(table)) = 2
        /\ \E validated \in AnyQuery :
               validated.email = "" /\ Len(QueryItems(validated)) = 2

(***************************************************************************)
(* C29                                                                     *)
(***************************************************************************)
\* r ended because its history append failed
StoreEndedInFailure(r) ==
    Done(r) /\ IsFetchRequest(r) /\ trace[r].putCalls >= 1 /\ trace[r].putOk = 0

\* no e-mail of r was sent
NoEmailOf(r) == trace[r].sesCalls = 0 /\ ~\E m \in outbox : m.req = r

\* the cache entry earlier invocations left
EarlierEntry == CacheItem("bitcoin", EarlierPriceData, 0)

Expired(i) == i.ttl <= now \div 1000

\* C29: a fetch request that fails leaves nothing of the later steps: when
\* the upstream fetch failed the request wrote no cache entry, appended no
\* record and sent no e-mail, and the cache entry that was there is as it
\* was; when the append failed no e-mail was sent, and the cache entry the
\* request wrote is kept (until its storage expiry).
C29_FailureLeavesNoLaterEffect ==
    \A r \in Reqs :
        /\ FetchEndedInFailure(r)
               => /\ trace[r].cacheWrite = "none"
                  /\ trace[r].uuidCalls = 0 /\ trace[r].putCalls = 0
                  /\ NoEmailOf(r)
                  /\ table \subseteq UNION EarlierTables
                  /\ (trace[r].cacheRead = "found" /\ ~Expired(EarlierEntry))
                         => EarlierEntry \in table
        /\ StoreEndedInFailure(r)
               => /\ NoEmailOf(r)
                  /\ HistoryRecords(table) \subseteq UNION EarlierTables
                  /\ (/\ trace[r].cacheWrite = "ok"
                      /\ now \div 1000 < (local[r].startTime \div 1000) + CACHE_EXPIRY_S)
                         => \E entry \in CacheEntries(table, local[r].cryptocurrency) :
                                /\ entry.priceData = local[r].priceData
                                /\ getTime(entry.timestamp) >= local[r].startTime

\* the append failed after the request had replaced a stale cache entry
C29_Witness ==
    \E r \in Reqs :
        /\ StoreEndedInFailure(r) /\ trace[r].cacheWrite = "ok"
        /\ trace[r].cacheRead = "found" /\ trace[r].cacheSeen # local[r].priceData
        /\ Status(r) = 503

\* the upstream fetch failed with a stale entry in the table
C29_FetchFailedOverStaleEntry ==
    \E r \in Reqs :
        /\ FetchEndedInFailure(r) /\ trace[r].cacheRead = "found"
        /\ EarlierEntry \in table /\ trace[r].upstreamCalls = 3

(***************************************************************************)
(* C30                                                                     *)
(***************************************************************************)
\* C30: every fetch request that was invoked ends with a response, given
\* that each external call completes and each timer fires; on the way it
\* makes at most 3 upstream calls and at most 3 history writes.
C30_EveryRequestResponds ==
    /\ [](\A r \in Reqs : /\ trace[r].upstreamCalls <= API_CONFIG.MAX_RETRIES
                          /\ trace[r].putCalls <= API_CONFIG.MAX_RETRIES)
    /\ \A r \in Reqs : (pc[r] # "idle") ~> Done(r)

\* a request that needed its third upstream call and its third history
\* write has responded
C30_Witness ==
    \E r \in Reqs :
        /\ Done(r) /\ Status(r) = 200
        /\ trace[r].upstreamCalls = 3 /\ trace[r].putCalls = 3

====
